---- MODULE Spec2Model ----
(***************************************************************************)
(* dg-cat: the datagram transport engine.                                  *)
(*                                                                         *)
(* The model covers the BufferQueue byte ring (buffer_queue.hpp), the two  *)
(* worker threads started by DatagramCopier::start (datagram_source.hpp),  *)
(* the UDP source loop (udp_datagram_source.hpp), the stream sink          *)
(* (file_datagram_destination.hpp), the UDP sink (unnamed/part_003), the   *)
(* signal thread and DatagramCopier::wait.  RingSpec runs the ring alone    *)
(* under a producer and a consumer that call its interface freely.         *)
(*                                                                         *)
(* Every step that takes the ring mutex is one action, except the          *)
(* producer's batch commit, which holds the mutex over several steps: the  *)
(* variable ring_mutex names its holder and every other ring operation     *)
(* waits for it to be free.  The condition variable is the set cv_waiters: *)
(* a thread that waits joins it and runs again only after a notify_all     *)
(* has emptied it.  A receive on the socket that force_eof() closed         *)
(* returns EBADF, as udp_datagram_source.hpp lines 243-244 expect.         *)
(***************************************************************************)
EXTENDS Integers, Sequences, FiniteSets, TLC

\* ------------------------------------------------------------- bounds ----

\* config.bufsize: the largest datagram payload a receive slot can hold.
Bufsize == 1

\* The number of datagrams the network delivers in one run.
MaxDatagrams == 3

\* config.max_iovecs: receive slots per recvmmsg call.
MaxIovecs == 2

\* config.max_write_size: the cap on one stream-sink batch.
MaxWriteSize == 6

\* SIGINT deliveries in one run.
MaxSigint == 2

\* config.max_read_size: the stream source's buffer, and with it the most
\* bytes one read call takes.
MaxReadSize == 4

\* The length-prefix size, sizeof(uint32_t).
PREFIX_LEN == 4

\* A max_backlog with room for two largest frames less one byte, so that
\* the ring fills, wraps and holds several frames at once.
RoomyBacklog == 2 * (Bufsize + PREFIX_LEN) - 1

\* A max_backlog one byte short of the largest frame: a datagram of bufsize
\* bytes does not fit the ring, any shorter one does.
TightBacklog == Bufsize + PREFIX_LEN - 1

\* ------------------------------------------------------------ helpers ----

Min(a, b) == IF a < b THEN a ELSE b

IsPrefix(s, t) == Len(s) <= Len(t) /\ SubSeq(t, 1, Len(s)) = s

Drop(s, k) == SubSeq(s, k + 1, Len(s))

Take(s, k) == SubSeq(s, 1, k)

\* boost::endian::native_to_big((uint32_t)dg_len), as the 4 bytes memcpy'd,
\* most significant first (dg_len stays below 2^31 here, so the cast to
\* uint32_t keeps it).
native_to_big(dg_len) ==
    << (dg_len \div 16777216) % 256, (dg_len \div 65536) % 256, (dg_len \div 256) % 256,
       dg_len % 256 >>

\* ntohl of 4 bytes taken from a buffer.
ntohl(b) == b[1] * 16777216 + b[2] * 65536 + b[3] * 256 + b[4]

\* A size_t, least significant byte first.
SizeBytes == 8

\* len > 0xffffffff: a byte above the low four is not zero.
exceeds_uint32(len) == \E i \in (PREFIX_LEN + 1)..SizeBytes : len[i] /= 0

\* (uint32_t)len: the low four bytes.
to_uint32(len) == SubSeq(len, 1, PREFIX_LEN)

\* boost::endian::native_to_big of a uint32_t, as it lies in memory: most
\* significant byte first.
big_endian_bytes(u) == [i \in 1..PREFIX_LEN |-> u[PREFIX_LEN + 1 - i]]

\* A prefix writer without the test of the length.
write_length_prefix_unchecked(len, buffer) ==
    [raised |-> FALSE, buffer |-> big_endian_bytes(to_uint32(len))]

\* write_length_prefix: throws for len > 0xffffffff, before it writes; else
\* copies the big-endian uint32_t into the buffer.
write_length_prefix(len, buffer) ==
    IF exceeds_uint32(len) THEN [raised |-> TRUE, buffer |-> buffer]
    ELSE [raised |-> FALSE, buffer |-> big_endian_bytes(to_uint32(len))]

\* read_length_prefix: the four bytes as a big-endian uint32_t, widened to
\* size_t.
read_length_prefix(buffer) ==
    [i \in 1..SizeBytes |-> IF i <= PREFIX_LEN THEN buffer[PREFIX_LEN + 1 - i] ELSE 0]

\* No call of the prefix functions.
NoCall == [pc |-> "none", len |-> [i \in 1..SizeBytes |-> 0],
           buffer |-> [i \in 1..PREFIX_LEN |-> 0], result |-> [i \in 1..SizeBytes |-> 0]]

\* The payload the network delivers as datagram number k with length len:
\* bytes that tell both the datagram and the position.
Payload(k, len) == [j \in 1..len |-> 10 * k + j]

\* One received message (struct mmsghdr): msg_len, msg_flags and the bytes.
Msg(k, len, flagged) == [msg_len |-> len, flagged |-> flagged, data |-> Payload(k, len)]

\* -------------------------------------------------------------- state ----

VARIABLES
    cfg,                    \* DgCatConfig: dst_kind ("file" | "udp"), handle_signals,
                            \* max_backlog, send_interval (1 / max_datagram_rate, 0
                            \* for none), max_datagrams; wire_lens, the datagram lengths the network
                            \* delivers; src, the source's kind and input
    pfx,                    \* a caller of write_length_prefix / read_length_prefix:
                            \* pc, len, buffer, result
    q,                      \* BufferQueue: data, producer_index, consumer_index, n, is_eof
    ring_mutex,             \* BufferQueue::_mutex: "none" or the thread that holds it
    cv_waiters,             \* threads blocked in BufferQueue::_cv.wait
    stats,                  \* BufferQueue::_stats (the producer's private counters)
    shared_stats,           \* BufferQueue::_shared_stats (the published copy)
    src,                    \* source worker: pc, msgs, i, need_notify, need_update_stats;
                            \* buf, bufsize, fn_min, pos: the stream source's _buffer
                            \* (its n_read bytes), _buffer.size(), n_min, and the
                            \* bytes of the input read so far; current_timeout
                            \* ("null" | "first" | "dg"), n_setsockopt: the SO_RCVTIMEO
                            \* installed and the number of setsockopt calls; held:
                            \* the stats mutexes it holds;
                            \* discarded: the numbers of the datagrams it discarded;
                            \* entry: what the counters and the ring had taken when
                            \* the commit in hand began; late: its deadline has passed
    source,                 \* UdpDatagramSource: force_eof, closed, sock
    dst,                    \* sink worker: pc, view (the batch as returned), batch, n_min;
                            \* now (the steady clock, in ticks), next_send_time,
                            \* send_times (the clock at each sendmsg under a rate)
    sig,                    \* signal thread: pc, sig, n_sigint; seen (the ring's
                            \* published counters when get() began its copy),
                            \* snapshot (the copy get_stats() returned last), points
                            \* (the published counters at the copy's two ends);
                            \* held: the Copier and stats mutexes it holds; group:
                            \* the stats group get() is at
    signal_thread_waiting,  \* DatagramCopier::_signal_thread_waiting
    pending,                \* blocked signals pending for sigwait
    main_pc,                \* the thread that calls start() and wait()
    exception,              \* DatagramCopier::_exception
    aborted,                \* exit(1) was called
    produced,               \* history: every byte appended to the ring, in order
    consumed,               \* history: every byte released by consumer_commit_batch
    written,                \* history: every byte passed to write()/writev()
    sent,                   \* history: the payload of every sendmsg()
    thrown,                 \* history: the exceptions the workers raised, in store order
    n_arrived,              \* history: datagrams the network has delivered
    n_sigint_sent           \* history: SIGINTs delivered before wait() ended

vars == << cfg, pfx, q, ring_mutex, cv_waiters, stats, shared_stats, src, source, dst, sig,
           signal_thread_waiting, pending, main_pc, exception, aborted,
           produced, consumed, written, sent, thrown, n_arrived, n_sigint_sent >>

ringVars == << q, ring_mutex, cv_waiters, stats, shared_stats >>

histVars == << produced, consumed, written, sent, thrown, n_arrived, n_sigint_sent >>

\* --------------------------------------------------------- BufferQueue ----

\* _max_n(config.max_backlog): the ring's capacity in bytes.
max_backlog == cfg.max_backlog

\* A free-space count that forgets the bytes in the ring.
n_free_ignoring_count(r) == max_backlog

\* BufferQueue::n_free_locked
n_free_locked(r) == max_backlog - r.n

\* memcpy of bytes into the ring's storage from index at (no wrap inside).
memcpy(data, at, bytes) ==
    [i \in DOMAIN data |-> IF at <= i /\ i < at + Len(bytes) THEN bytes[i - at + 1] ELSE data[i]]

\* BufferQueue::put_data_locked_no_notify: copy in at producer_index, in two
\* parts when the write wraps, and count the bytes.
put_data_locked_no_notify(r, bytes) ==
    IF Len(bytes) = 0 THEN r
    ELSE LET n1  == Min(Len(bytes), max_backlog - r.producer_index)
             d1  == memcpy(r.data, r.producer_index, Take(bytes, n1))
             p1  == (r.producer_index + n1) % max_backlog
             rem == Len(bytes) - n1
         IN  IF rem > 0
             THEN [r EXCEPT !.data = memcpy(d1, p1, Drop(bytes, n1)),
                            !.producer_index = (p1 + rem) % max_backlog,
                            !.n = r.n + Len(bytes)]
             ELSE [r EXCEPT !.data = d1, !.producer_index = p1, !.n = r.n + Len(bytes)]

\* ConsumerBatch's constructor: 0, 1 or 2 slices (base index, length).
ConsumerBatch(b1, n1, b2, n2) ==
    LET f1 == IF n1 = 0 THEN n2 ELSE n1
        fb == IF n1 = 0 THEN b2 ELSE b1
        f2 == IF n1 = 0 THEN 0 ELSE n2
    IN  [iov |-> IF f1 = 0 THEN << >>
                 ELSE IF f2 = 0 THEN << [base |-> fb, len |-> f1] >>
                 ELSE << [base |-> fb, len |-> f1], [base |-> b2, len |-> f2] >>,
         n   |-> f1 + f2]

\* A view whose second slice starts where the first does, not at the
\* storage's start.
get_data_second_slice_misplaced(r, n_max) ==
    LET n  == Min(r.n, n_max)
        n1 == Min(r.n, max_backlog - r.consumer_index)
    IN  IF n = 0 THEN ConsumerBatch(0, 0, 0, 0)
        ELSE IF n1 >= n THEN ConsumerBatch(r.consumer_index, n, 0, 0)
        ELSE ConsumerBatch(r.consumer_index, n1, r.consumer_index, n - n1)

\* BufferQueue::get_data_locked: a view of min(_n, n_max) bytes at consumer_index.
get_data_locked(r, n_max) ==
    LET n  == Min(r.n, n_max)
        n1 == Min(r.n, max_backlog - r.consumer_index)
    IN  IF n = 0 THEN ConsumerBatch(0, 0, 0, 0)
        ELSE IF n1 >= n THEN ConsumerBatch(r.consumer_index, n, 0, 0)
        ELSE ConsumerBatch(r.consumer_index, n1, 0, n - n1)

\* The bytes a batch's slices point at, read from the ring's storage.
BatchBytes(r, batch) ==
    LET Slice(v) == [j \in 1..v.len |-> r.data[v.base + j - 1]]
    IN  IF Len(batch.iov) = 0 THEN << >>
        ELSE IF Len(batch.iov) = 1 THEN Slice(batch.iov[1])
        ELSE Slice(batch.iov[1]) \o Slice(batch.iov[2])

\* The predicate of the producer's _cv.wait: room for a whole frame.
producer_has_room(r, dg_len) == r.n + dg_len + PREFIX_LEN <= max_backlog

\* A consumer that takes whatever the ring holds without waiting.
consumer_always_ready(r, n_min) == TRUE

\* The predicate of the consumer's _cv.wait.
consumer_ready(r, n_min) == r.is_eof \/ r.n >= n_min

\* A consumer commit that rewinds both indices when it empties the ring.
consumer_commit_rewinding(r, n) ==
    IF r.n = n THEN [r EXCEPT !.consumer_index = 0, !.producer_index = 0, !.n = 0]
    ELSE [r EXCEPT !.consumer_index = (r.consumer_index + n) % max_backlog, !.n = r.n - n]

\* BufferQueue::consumer_commit_batch, the state change (n <= _n).
consumer_commit(r, n) ==
    [r EXCEPT !.consumer_index = (r.consumer_index + n) % max_backlog, !.n = r.n - n]

\* A producer_set_eof that flips the flag and forgets what the ring holds.
set_eof_flipping(r) == [r EXCEPT !.is_eof = ~@, !.n = 0]

\* BufferQueue::producer_set_eof, the state change.
set_eof(r) == [r EXCEPT !.is_eof = TRUE]

\* A producer entry point that never looks at _is_eof.
producer_never_refused(r) == FALSE

\* The test at the head of producer_reserve_bytes and producer_commit_batch:
\* with _is_eof set the call throws "write to BufferQueue after EOF".
producer_refused(r) == r.is_eof

\* A notification that wakes nobody.
notify_nobody(waiters) == waiters

\* The threads notify_all wakes: all of them.
notify_all(waiters) == {}

\* --------------------------------------------------------------- Init ----

\* The lengths of the datagrams the network delivers: up to bufsize, and one
\* byte more.
WireLens == 0..(Bufsize + 1)

\* The UDP source, to which the network delivers n datagrams, with positive
\* config.start_timeout and config.eof_timeout; it has no input stream.
UdpSrc == {[kind |-> "udp", input |-> << >>, n |-> MaxDatagrams,
            start_timeout |-> 1, eof_timeout |-> 1]}

\* The state after DatagramCopier's constructor: an empty ring, an open
\* source socket, no thread started.  With started, the state after
\* BufferQueue's constructor alone, a producer and a consumer thread about to
\* make their first calls.
InitWith(kinds, signals, lens, started, backlog, srcs, interval, limits) ==
    /\ cfg \in [dst_kind : kinds, handle_signals : signals, wire_lens : {lens},
                max_backlog : {backlog}, src : srcs, send_interval : {interval},
                max_datagrams : limits]
    /\ q = [data |-> [i \in 0..(max_backlog - 1) |-> 0], producer_index |-> 0,
            consumer_index |-> 0, n |-> 0, is_eof |-> FALSE]
    /\ ring_mutex = "none"
    /\ cv_waiters = {}
    /\ stats = [max_backlog_bytes |-> 0, n_datagrams |-> 0, n_datagrams_discarded |-> 0,
                n_datagram_bytes |-> 0]
    /\ shared_stats = stats
    /\ src = [pc |-> IF started THEN "call" ELSE "idle", msgs |-> << >>, i |-> 0,
              need_notify |-> FALSE, need_update_stats |-> FALSE, exc |-> "none",
              timed |-> FALSE, n_min |-> 0, why |-> "none", discarded |-> {},
              entry |-> [n |-> 0, bytes |-> 0], n_buffers_committed |-> 0, late |-> FALSE,
              buf |-> << >>, bufsize |-> MaxReadSize, fn_min |-> PREFIX_LEN, pos |-> 0,
              current_timeout |-> "null", n_setsockopt |-> 0, held |-> {}]
    /\ source = [force_eof |-> FALSE, closed |-> FALSE, sock |-> "open", n_close |-> 0]
    /\ dst = [pc |-> IF started THEN "pick" ELSE "idle", view |-> ConsumerBatch(0, 0, 0, 0),
              batch |-> ConsumerBatch(0, 0, 0, 0), n_min |-> 0, n_max |-> 0, exc |-> "none",
              closed |-> FALSE, fd |-> "open", n_close |-> 0,
              now |-> 0, next_send_time |-> 0, send_times |-> << >>]
    /\ sig = [pc |-> "idle", sig |-> "none", n_sigint |-> 0,
              seen |-> stats, snapshot |-> stats, points |-> {stats},
              held |-> {}, group |-> "none"]
    /\ signal_thread_waiting = FALSE
    /\ pending = {}
    /\ main_pc = IF started THEN "none" ELSE "start"
    /\ exception = "none"
    /\ aborted = FALSE
    /\ produced = << >>
    /\ consumed = << >>
    /\ written = << >>
    /\ sent = << >>
    /\ thrown = << >>
    /\ n_arrived = 0
    /\ n_sigint_sent = 0

\* ------------------------------------------------- UdpDatagramSource ----

\* What a receive slot holds after recvmmsg: the datagram, or, when it is
\* longer than the slot, its first bufsize bytes flagged MSG_TRUNC.
SlotMsg(k, len) == IF len > Bufsize THEN Msg(k, Bufsize, TRUE) ELSE Msg(k, len, FALSE)

\* A force_eof that closes without raising the flag.
force_eof_without_flag(s) == s

\* UdpDatagramSource::force_eof, first half: the flag, under the source mutex.
force_eof_flag(s) == [s EXCEPT !.force_eof = TRUE]

\* A close() that does not look at _closed.
close_source_unguarded(s) ==
    [s EXCEPT !.closed = TRUE, !.sock = "closed", !.n_close = @ + 1]

\* UdpDatagramSource::close: once only; closes the socket.  n_close counts
\* the calls of ::close(_sock).
close_source(s) ==
    IF s.closed THEN s
    ELSE [s EXCEPT !.closed = TRUE, !.sock = "closed", !.n_close = @ + 1]

\* A catch block that stores its exception whatever the slot holds.
store_exception_overwriting(slot, e) == e

\* The catch block of a worker lambda in DatagramCopier::start: the slot
\* takes the exception only when it is empty.
store_exception(slot, e) == IF slot = "none" THEN e ELSE slot

\* A choice of timeout that forgets the first datagram's.
timeout_for_always_dg(n_datagrams) == "dg"

\* timeout = (n_datagrams == 0) ? &first_dg_timespec : &dg_timespec.
timeout_for(n_datagrams) == IF n_datagrams = 0 THEN "first" ELSE "dg"

\* first_dg_timespec and dg_timespec: the configured seconds when positive,
\* else zero, which SO_RCVTIMEO takes for no timeout.
timespec_of(timeout) ==
    LET secs == IF timeout = "first" THEN cfg.src.start_timeout ELSE cfg.src.eof_timeout
    IN  IF secs > 0 THEN secs ELSE 0

\* The top of the receive loop: setsockopt(SO_RCVTIMEO) when the chosen
\* timeout is not the installed one.  The loop's n_datagrams is n_arrived:
\* it has counted every datagram of the batches committed so far.
set_timeout(s) ==
    LET timeout == timeout_for(n_arrived) IN
    IF timeout /= s.current_timeout
    THEN [s EXCEPT !.current_timeout = timeout, !.n_setsockopt = @ + 1]
    ELSE s

\* recvmmsg returned n >= 1 datagrams.
SrcRecvDatagrams ==
    /\ src.pc = "recv"
    /\ source.sock = "open"
    /\ \E k \in 1..Min(MaxIovecs, cfg.src.n - n_arrived) :
         \E lens \in [1..k -> cfg.wire_lens] :
            /\ src' = [set_timeout(src) EXCEPT !.pc = "commit",
                                  !.msgs = [j \in 1..k |-> SlotMsg(n_arrived + j, lens[j])]]
            /\ n_arrived' = n_arrived + k
    /\ UNCHANGED << cfg, pfx, ringVars, source, dst, sig, signal_thread_waiting, pending, main_pc,
                    exception, aborted, produced, consumed, written, sent, thrown,
                    n_sigint_sent >>

\* A loop that takes the expired timeout for a failure of recvmmsg.
recv_timeout_raises(s) ==
    [s EXCEPT !.pc = "store_exc", !.exc = "recvmmsg_failed", !.why = "timeout"]

\* errno EAGAIN / EWOULDBLOCK (or n == 0): break out of the loop.
recv_timeout(s) == [s EXCEPT !.pc = "copy_done", !.why = "timeout"]

\* recvmmsg returned -1 with EAGAIN / EWOULDBLOCK: the receive timeout, a
\* positive one, expired; the loop ends.
SrcRecvTimeout ==
    /\ src.pc = "recv"
    /\ source.sock = "open"
    /\ timespec_of(set_timeout(src).current_timeout) > 0
    /\ src' = recv_timeout(set_timeout(src))
    /\ UNCHANGED << cfg, pfx, ringVars, source, dst, sig, signal_thread_waiting, pending, main_pc,
                    exception, aborted, histVars >>

\* recvmmsg returned -1 with another errno: std::system_error.
SrcRecvError ==
    /\ src.pc = "recv"
    /\ source.sock = "open"
    /\ src' = [set_timeout(src) EXCEPT !.pc = "store_exc", !.exc = "recvmmsg_failed"]
    /\ UNCHANGED << cfg, pfx, ringVars, source, dst, sig, signal_thread_waiting, pending, main_pc,
                    exception, aborted, histVars >>

\* A loop that takes no EBADF for an end of input.
bad_fd_is_eof_never(s) == FALSE

\* The test under _mutex after EBADF / ENOTSOCK: _force_eof.
bad_fd_is_eof(s) == s.force_eof

\* recvmmsg on the closed socket: EBADF; with _force_eof the loop ends,
\* without it the error is raised.
SrcRecvBadFd ==
    /\ src.pc = "recv"
    /\ source.sock = "closed"
    /\ src' = IF bad_fd_is_eof(source)
              THEN [set_timeout(src) EXCEPT !.pc = "copy_done", !.why = "force_eof"]
              ELSE [set_timeout(src) EXCEPT !.pc = "store_exc", !.exc = "bad_descriptor"]
    /\ UNCHANGED << cfg, pfx, ringVars, source, dst, sig, signal_thread_waiting, pending, main_pc,
                    exception, aborted, histVars >>

\* Where the producer is between two calls on the ring: the UDP source in
\* its receive loop, the stream source in its read loop, a client of the
\* ring's interface choosing its next call.
ProducerIdle ==
    IF cfg.dst_kind = "client" THEN "call"
    ELSE IF cfg.src.kind = "file" THEN "fread" ELSE "recv"

\* A commit that takes a datagram of any length.
too_large_never(dg_len) == FALSE

\* _max_n < dg_len + PREFIX_LEN: "Datagram + PREFIX too large for buffer".
too_large(dg_len) == max_backlog < dg_len + PREFIX_LEN

\* A timed commit that never counts what it has handled.
count_committed_stuck(timed, c) == c

\* n_buffers_committed++ in the timed producer_commit_batch; the untimed one
\* has no such counter.
count_committed(timed, c) == IF timed THEN c + 1 ELSE c

\* The number, in order of arrival, of message i of the batch in hand.
DatagramNo(i) == n_arrived - Len(src.msgs) + i

\* A producer that forwards every message, whatever its flags.
is_discarded_never(m) == FALSE

\* flags & (MSG_OOB | MSG_ERRQUEUE | MSG_TRUNC): the message is discarded.
is_discarded(m) == m.flagged

\* Counters that leave out the datagrams without payload.
count_datagram_skipping_empty(st, dg_len) ==
    [st EXCEPT !.n_datagrams = @ + (IF dg_len = 0 THEN 0 ELSE 1),
               !.n_datagram_bytes = @ + dg_len]

\* _stats.n_datagrams++; _stats.n_datagram_bytes += dg_len.
count_datagram(st, dg_len) ==
    [st EXCEPT !.n_datagrams = @ + 1, !.n_datagram_bytes = @ + dg_len]

\* producer_commit_batch: take the mutex; a set eof is a logic error.
SrcCommitLock ==
    /\ src.pc = "commit"
    /\ ring_mutex = "none"
    /\ IF producer_refused(q)
       THEN /\ src' = [src EXCEPT !.pc = "store_exc", !.exc = "write_after_eof"]
            /\ UNCHANGED ring_mutex
       ELSE /\ src' = [src EXCEPT !.pc = "commit_msg", !.i = 1, !.need_notify = FALSE,
                                  !.need_update_stats = FALSE, !.n_buffers_committed = 0,
                                  !.entry = [n |-> stats.n_datagrams + stats.n_datagrams_discarded,
                                             bytes |-> Len(produced)]]
            /\ ring_mutex' = "src"
    /\ UNCHANGED << cfg, pfx, q, cv_waiters, stats, shared_stats, source, dst, sig,
                    signal_thread_waiting, pending, main_pc, exception, aborted, histVars >>

\* The frame's first half: the 4-byte big-endian length.
PutPrefix(dg_len) ==
    /\ q' = put_data_locked_no_notify(q, native_to_big(dg_len))
    /\ produced' = produced \o native_to_big(dg_len)

\* A producer that lets go of the mutex between prefix and payload.
mutex_released_after_prefix == "none"

\* Where the producer goes when producer_commit_batch returns: a worker to
\* the update of its source stats, a client to its next call.
AfterCommit == IF cfg.dst_kind = "client" THEN "call" ELSE "stats_lock"

\* What the mutex is after the prefix was put: still the producer's.
mutex_after_prefix == "src"

\* producer_commit_batch, one turn of the loop with the mutex held: discard
\* a flagged message, fail on one larger than the ring, wait when the frame
\* does not fit, else put the prefix; after the last message publish the
\* counters, notify and unlock.
SrcCommitMsg ==
    /\ src.pc = "commit_msg"
    /\ ring_mutex = "src"
    /\ IF src.i > Len(src.msgs)
       THEN /\ shared_stats' = IF src.need_update_stats THEN stats ELSE shared_stats
            /\ cv_waiters' = IF src.need_notify THEN notify_all(cv_waiters) ELSE cv_waiters
            /\ ring_mutex' = "none"
            /\ src' = [src EXCEPT !.pc = AfterCommit, !.msgs = << >>, !.i = 0,
                                  !.need_notify = FALSE, !.need_update_stats = FALSE,
                                  !.timed = FALSE, !.late = FALSE,
                                  !.n_buffers_committed = 0, !.entry = [n |-> 0, bytes |-> 0]]
            /\ UNCHANGED << q, stats, produced >>
       ELSE LET m == src.msgs[src.i] IN
            IF is_discarded(m)
            THEN /\ stats' = [stats EXCEPT !.n_datagrams_discarded = @ + 1]
                 /\ src' = [src EXCEPT !.i = @ + 1, !.need_update_stats = TRUE,
                                       !.discarded = @ \cup {DatagramNo(src.i)},
                                       !.n_buffers_committed = count_committed(src.timed, @)]
                 /\ UNCHANGED << q, ring_mutex, cv_waiters, shared_stats, produced >>
            ELSE IF too_large(m.msg_len)
            THEN /\ src' = [src EXCEPT !.pc = "store_exc", !.exc = "too_large"]
                 /\ ring_mutex' = "none"
                 /\ UNCHANGED << q, cv_waiters, stats, shared_stats, produced >>
            ELSE IF n_free_locked(q) < m.msg_len + PREFIX_LEN
            THEN /\ shared_stats' = IF src.need_update_stats THEN stats ELSE shared_stats
                 /\ cv_waiters' = (IF src.need_notify THEN notify_all(cv_waiters)
                                   ELSE cv_waiters) \cup {"src"}
                 /\ ring_mutex' = "none"
                 /\ src' = [src EXCEPT !.pc = "commit_wait", !.need_notify = FALSE,
                                       !.need_update_stats = FALSE]
                 /\ UNCHANGED << q, stats, produced >>
            ELSE /\ PutPrefix(m.msg_len)
                 /\ ring_mutex' = mutex_after_prefix
                 /\ src' = [src EXCEPT !.pc = "commit_payload", !.need_notify = TRUE]
                 /\ UNCHANGED << cv_waiters, stats, shared_stats >>
    /\ UNCHANGED << cfg, pfx, source, dst, sig, signal_thread_waiting, pending, main_pc,
                    exception, aborted, consumed, written, sent, thrown, n_arrived,
                    n_sigint_sent >>

\* The producer's _cv.wait returns: notified, it takes the mutex again and
\* tests the predicate; with room it goes on to put the prefix, without it
\* waits again.  Once the deadline of a timed call has passed, wait_until
\* returns by timeout and never by this path.
SrcCommitWake ==
    /\ src.pc = "commit_wait"
    /\ ~src.late
    /\ "src" \notin cv_waiters
    /\ ring_mutex = "none"
    /\ IF producer_has_room(q, src.msgs[src.i].msg_len)
       THEN /\ PutPrefix(src.msgs[src.i].msg_len)
            /\ ring_mutex' = mutex_after_prefix
            /\ src' = [src EXCEPT !.pc = "commit_payload", !.need_notify = TRUE]
            /\ UNCHANGED cv_waiters
       ELSE /\ cv_waiters' = cv_waiters \cup {"src"}
            /\ UNCHANGED << q, ring_mutex, src, produced >>
    /\ UNCHANGED << cfg, pfx, stats, shared_stats, source, dst, sig, signal_thread_waiting,
                    pending, main_pc, exception, aborted, consumed, written, sent, thrown,
                    n_arrived, n_sigint_sent >>

\* The timed producer_commit_batch: _cv.wait_until ran out of time.  With
\* room now it goes on as after a wake-up; without, the loop breaks and the
\* call returns the count of the messages handled so far.
SrcCommitTimeout ==
    /\ src.pc = "commit_wait"
    /\ src.timed
    /\ ring_mutex = "none"
    /\ cv_waiters' = cv_waiters \ {"src"}
    /\ IF producer_has_room(q, src.msgs[src.i].msg_len)
       THEN /\ PutPrefix(src.msgs[src.i].msg_len)
            /\ ring_mutex' = mutex_after_prefix
            /\ src' = [src EXCEPT !.pc = "commit_payload", !.need_notify = TRUE,
                                  !.late = TRUE]
       ELSE /\ src' = [src EXCEPT !.pc = AfterCommit, !.msgs = << >>, !.i = 0,
                                  !.timed = FALSE, !.late = FALSE,
                                  !.n_buffers_committed = 0, !.entry = [n |-> 0, bytes |-> 0]]
            /\ UNCHANGED << q, ring_mutex, produced >>
    /\ UNCHANGED << cfg, pfx, stats, shared_stats, source, dst, sig, signal_thread_waiting,
                    pending, main_pc, exception, aborted, consumed, written, sent, thrown,
                    n_arrived, n_sigint_sent >>

\* The frame's second half: the payload and the counters.
SrcCommitPayload ==
    /\ src.pc = "commit_payload"
    /\ ring_mutex = "src"
    /\ LET m == src.msgs[src.i] IN
         /\ q' = put_data_locked_no_notify(q, m.data)
         /\ produced' = produced \o m.data
         /\ stats' = count_datagram(stats, m.msg_len)
    /\ ring_mutex' = "src"
    /\ src' = [src EXCEPT !.pc = "commit_msg", !.i = @ + 1, !.need_update_stats = TRUE,
                          !.n_buffers_committed = count_committed(src.timed, @)]
    /\ UNCHANGED << cfg, pfx, cv_waiters, shared_stats, source, dst, sig, signal_thread_waiting,
                    pending, main_pc, exception, aborted, consumed, written, sent, thrown,
                    n_arrived, n_sigint_sent >>

\* ------------------------------------------------------ stream source ----

\* _iovs.size() and _msgs.size(): max_read_size / PREFIX_LEN.
IovCount == MaxReadSize \div PREFIX_LEN

\* A message as the stream source hands it to producer_commit_batch: the
\* payload in place in _buffer, msg_flags zero.
FileMsg(data) == [msg_len |-> Len(data), flagged |-> FALSE, data |-> data]

\* The inner loop of FileDatagramSource::copy_to_buffer_queue over the
\* n_read bytes b of a _buffer of size bytes, from offset i with msgs already
\* found.  Each turn copies 4 bytes at i into nbo_prefix and fills
\* _iovs[n] and _msgs[n] before it tests whether the frame is whole.  ub: a
\* turn, this one or one before, read _buffer past its end or wrote _iovs /
\* _msgs past theirs; the result is then the one of a run in which the access
\* went unnoticed (a prefix cut by the end of the n_read bytes always fails
\* the test, whatever was read for its missing bytes).
\* first_len: the length the prefix at the stop announces.
RECURSIVE ParseFrames(_, _, _, _, _)
ParseFrames(b, size, i, msgs, ub_before) ==
    IF i >= Len(b)
    THEN [msgs |-> msgs, i_next |-> i, ub |-> ub_before, first_len |-> 0]
    ELSE LET ub    == ub_before \/ Len(msgs) >= IovCount \/ i + PREFIX_LEN > size
             whole == i + PREFIX_LEN <= Len(b)
             nb    == IF whole THEN ntohl(SubSeq(b, i + 1, i + PREFIX_LEN)) ELSE 0
         IN  IF ~whole \/ i + PREFIX_LEN + nb > Len(b)
             THEN [msgs |-> msgs, i_next |-> i, ub |-> ub, first_len |-> nb]
             ELSE ParseFrames(b, size, i + PREFIX_LEN + nb,
                              Append(msgs, FileMsg(SubSeq(b, i + PREFIX_LEN + 1,
                                                          i + PREFIX_LEN + nb))), ub)

\* The frames found in the n_read bytes of _buffer.
parse(b, size) == ParseFrames(b, size, 0, << >>, FALSE)

\* A loop that leaves n_min alone when it found no whole frame.
n_min_unraised(nb_datagram) == PREFIX_LEN

\* n_min = _iovs[0].iov_len + PREFIX_LEN: the size of the frame the buffer
\* holds the start of.
n_min_for(nb_datagram) == nb_datagram + PREFIX_LEN

\* read() returned nb1 > 0 bytes.  Below n_min the loop reads again; else the
\* buffer is parsed: no whole frame raises n_min to the first frame's size;
\* otherwise the whole frames go to producer_commit_batch and what follows
\* them moves to the buffer's start.  An access out of bounds during the
\* parse is undefined behaviour: it may pass unnoticed or end the process.
FsrcRead ==
    /\ src.pc = "fread"
    /\ source.sock = "open"
    /\ LET size == IF src.bufsize < src.fn_min THEN src.fn_min ELSE src.bufsize IN
       \E nb1 \in 1..Min(Len(cfg.src.input) - src.pos, size - Len(src.buf)) :
         LET b == src.buf \o SubSeq(cfg.src.input, src.pos + 1, src.pos + nb1)
             r == parse(b, size)
         IN  IF Len(b) < src.fn_min
             THEN /\ src' = [src EXCEPT !.buf = b, !.bufsize = size, !.pos = @ + nb1]
                  /\ UNCHANGED << dst, main_pc, aborted >>
             ELSE \E crash \in (IF r.ub THEN BOOLEAN ELSE {FALSE}) :
                  IF crash
                  THEN /\ src' = [src EXCEPT !.pc = "killed", !.buf = b, !.bufsize = size,
                                             !.pos = @ + nb1]
                       /\ dst' = [dst EXCEPT !.pc = "killed"]
                       /\ main_pc' = "killed"
                       /\ aborted' = TRUE
                  ELSE /\ src' = IF r.msgs = << >>
                                 THEN [src EXCEPT !.buf = b, !.bufsize = size,
                                                  !.pos = @ + nb1,
                                                  !.fn_min = n_min_for(r.first_len)]
                                 ELSE [src EXCEPT !.buf = Drop(b, r.i_next),
                                                  !.bufsize = size, !.pos = @ + nb1,
                                                  !.fn_min = PREFIX_LEN,
                                                  !.msgs = r.msgs, !.pc = "commit"]
                       /\ UNCHANGED << dst, main_pc, aborted >>
    /\ UNCHANGED << cfg, pfx, ringVars, source, sig, signal_thread_waiting, pending, exception,
                    histVars >>

\* An end of input that throws when it cuts a frame.
read_eof_strict(n_read) ==
    IF n_read = 0 THEN [pc |-> "copy_done", exc |-> "none"]
    ELSE [pc |-> "store_exc", exc |-> "unexpected_eof"]

\* How the loop goes on after read() returned 0 with n_read bytes in hand:
\* it breaks, having logged an error if n_read is not zero.
read_eof(n_read) == [pc |-> "copy_done", exc |-> "none"]

\* read() returned 0: the input ends here.  With bytes of a frame in the
\* buffer this is the unexpected EOF, logged; in both cases the loop ends.
FsrcEof ==
    /\ src.pc = "fread"
    /\ source.sock = "open"
    /\ src' = [src EXCEPT !.pc = read_eof(Len(src.buf)).pc,
                          !.exc = read_eof(Len(src.buf)).exc,
                          !.why = IF src.buf = << >> THEN "eof" ELSE "partial_eof"]
    /\ UNCHANGED << cfg, pfx, ringVars, source, dst, sig, signal_thread_waiting, pending,
                    main_pc, exception, aborted, histVars >>

\* read() returned -1 with an errno other than EBADF and EINTR.
FsrcReadError ==
    /\ src.pc = "fread"
    /\ source.sock = "open"
    /\ src' = [src EXCEPT !.pc = "store_exc", !.exc = "read_failed"]
    /\ UNCHANGED << cfg, pfx, ringVars, source, dst, sig, signal_thread_waiting, pending,
                    main_pc, exception, aborted, histVars >>

\* read() on the closed descriptor: EBADF; with _force_eof the loop ends,
\* without it the error is thrown.
FsrcBadFd ==
    /\ src.pc = "fread"
    /\ source.sock = "closed"
    /\ src' = IF source.force_eof
              THEN [src EXCEPT !.pc = "copy_done", !.why = "force_eof"]
              ELSE [src EXCEPT !.pc = "store_exc", !.exc = "bad_descriptor"]
    /\ UNCHANGED << cfg, pfx, ringVars, source, dst, sig, signal_thread_waiting, pending,
                    main_pc, exception, aborted, histVars >>

\* After the commit: std::lock_guard lock(stats._mutex), the mutex of the
\* source stats group, which LockableStats::get() may hold.
SrcStatsLock ==
    /\ src.pc = "stats_lock"
    /\ "source_stats" \notin sig.held
    /\ src' = [src EXCEPT !.pc = "stats_update", !.held = {"source_stats"}]
    /\ UNCHANGED << cfg, pfx, ringVars, source, dst, sig, signal_thread_waiting, pending,
                    main_pc, exception, aborted, histVars >>

\* The source stats are updated and the lock_guard's scope ends; back to the
\* top of the loop.
SrcStatsUnlock ==
    /\ src.pc = "stats_update"
    /\ src' = [src EXCEPT !.pc = ProducerIdle, !.held = {}]
    /\ UNCHANGED << cfg, pfx, ringVars, source, dst, sig, signal_thread_waiting, pending,
                    main_pc, exception, aborted, histVars >>

\* The source lambda's catch block: store the exception if the slot is empty.
SrcStoreException ==
    /\ src.pc = "store_exc"
    /\ exception' = store_exception(exception, src.exc)
    /\ thrown' = Append(thrown, src.exc)
    /\ src' = [src EXCEPT !.pc = "copy_done"]
    /\ UNCHANGED << cfg, pfx, ringVars, source, dst, sig, signal_thread_waiting, pending, main_pc,
                    aborted, produced, consumed, written, sent, n_arrived, n_sigint_sent >>

\* A source thread that goes round its copy loop again after the lambda's
\* last statement.
thread_loops(s) == [s EXCEPT !.pc = ProducerIdle]

\* The source lambda returns after its last statement: the thread is over.
thread_returns(s) == [s EXCEPT !.pc = "exited"]

\* The source lambda's last statement: _buffer_queue.producer_set_eof().
SrcSetEof ==
    /\ src.pc = "copy_done"
    /\ ring_mutex = "none"
    /\ q' = set_eof(q)
    /\ cv_waiters' = notify_all(cv_waiters)
    /\ src' = thread_returns(src)
    /\ UNCHANGED << cfg, pfx, ring_mutex, stats, shared_stats, source, dst, sig,
                    signal_thread_waiting, pending, main_pc, exception, aborted, histVars >>

\* ------------------------------------------------------------- sinks ----

\* ConsumerBatch::copy_and_remove_bytes: the view without its first k bytes.
copy_and_remove_bytes(batch, k) ==
    LET v1 == batch.iov[1] IN
    IF v1.len > k
    THEN [iov |-> << [base |-> v1.base + k, len |-> v1.len - k] >> \o Tail(batch.iov),
          n   |-> batch.n - k]
    ELSE IF Len(batch.iov) = 1 \/ v1.len = k
    THEN [iov |-> Tail(batch.iov), n |-> batch.n - k]
    ELSE LET v2 == batch.iov[2]
             k2 == k - v1.len
         IN  [iov |-> IF v2.len > k2 THEN << [base |-> v2.base + k2, len |-> v2.len - k2] >>
                      ELSE << >>,
              n   |-> batch.n - k]

\* A stream sink that asks for batches of at most 0 bytes.
consume_n_max_zero_write(kind, n_max) ==
    IF kind = "file" THEN 0 ELSE IF kind = "udp" THEN max_backlog ELSE n_max

\* The arguments of the sink's consumer_start_batch call: the stream sink
\* asks for 1..max_write_size bytes, the UDP sink for n_min and no maximum
\* (n_max = SIZE_MAX, which the ring's size stands for), a client of the
\* ring's interface for what it chose.
consume_n_min(kind, n_min) == IF kind = "file" THEN 1 ELSE n_min

consume_n_max(kind, n_max) ==
    IF kind = "file" THEN MaxWriteSize ELSE IF kind = "udp" THEN max_backlog ELSE n_max

\* The stream sink's loop exit test on an empty batch: buffer_queue.is_eof().
file_done(r) == r.is_eof

\* A close() of the sink that does not look at _closed.
close_destination_unguarded(d) ==
    [d EXCEPT !.closed = TRUE, !.fd = "closed", !.n_close = @ + 1]

\* FileDatagramDestination::close / UdpDatagramDestination::close: once only;
\* closes the descriptor.  n_close counts the calls of ::close.
close_destination(d) ==
    IF d.closed THEN d
    ELSE [d EXCEPT !.closed = TRUE, !.fd = "closed", !.n_close = @ + 1]

\* ObjectCloser fd_closer(this) in copy_from_buffer_queue: close() runs when
\* the method is left, by return or by exception.  A client of the ring's
\* interface has no descriptor.
fd_closer(d) == IF cfg.dst_kind = "client" THEN d ELSE close_destination(d)

\* What the sink does with the batch consumer_start_batch returned, up to its
\* next system call.  Stream sink: an empty batch leads to the is_eof test, any
\* other to write.  UDP sink: a batch below n_min ends the loop; else the
\* prefix is copied out and removed, and a batch shorter than the announced
\* payload raises n_min and consumes again.  A client of the ring's
\* interface holds the batch until it commits.
AfterConsume(batch) ==
    IF cfg.dst_kind = "file"
    THEN [dst EXCEPT !.view = batch, !.batch = batch,
                     !.pc = IF Len(batch.iov) = 0 THEN "is_eof" ELSE "write"]
    ELSE IF cfg.dst_kind = "client"
    THEN [dst EXCEPT !.view = batch, !.batch = batch, !.pc = "client_commit"]
    ELSE IF batch.n < dst.n_min
    THEN fd_closer([dst EXCEPT !.view = batch, !.batch = batch, !.pc = "force_eof"])
    ELSE LET nb_datagram == ntohl(Take(BatchBytes(q, batch), PREFIX_LEN))
             rest        == copy_and_remove_bytes(batch, PREFIX_LEN)
         IN  IF rest.n < nb_datagram
             THEN [dst EXCEPT !.view = batch, !.batch = rest,
                              !.n_min = nb_datagram + PREFIX_LEN, !.pc = "consume"]
             ELSE [dst EXCEPT !.view = batch, !.batch = rest, !.pc = "send"]

\* consumer_start_batch: refuse n_min above the ring's size; with the mutex,
\* wait unless n_min bytes or eof are there; return the view.
DstConsume ==
    /\ dst.pc = "consume"
    /\ LET n_min == consume_n_min(cfg.dst_kind, dst.n_min) IN
       IF n_min > max_backlog
       THEN /\ dst' = fd_closer([dst EXCEPT !.pc = "store_exc", !.exc = "consume_too_many"])
            /\ UNCHANGED cv_waiters
       ELSE /\ ring_mutex = "none"
            /\ IF q.n < n_min /\ ~consumer_ready(q, n_min)
               THEN /\ cv_waiters' = cv_waiters \cup {"dst"}
                    /\ dst' = [dst EXCEPT !.pc = "consume_wait"]
               ELSE /\ dst' = AfterConsume(get_data_locked(q, consume_n_max(cfg.dst_kind, dst.n_max)))
                    /\ UNCHANGED cv_waiters
    /\ UNCHANGED << cfg, pfx, q, ring_mutex, stats, shared_stats, src, source, sig,
                    signal_thread_waiting, pending, main_pc, exception, aborted, histVars >>

\* The consumer's _cv.wait returns: notified, it takes the mutex and tests
\* the predicate again.
DstConsumeWake ==
    /\ dst.pc = "consume_wait"
    /\ "dst" \notin cv_waiters
    /\ ring_mutex = "none"
    /\ IF consumer_ready(q, consume_n_min(cfg.dst_kind, dst.n_min))
       THEN /\ dst' = AfterConsume(get_data_locked(q, consume_n_max(cfg.dst_kind, dst.n_max)))
            /\ UNCHANGED cv_waiters
       ELSE /\ cv_waiters' = cv_waiters \cup {"dst"}
            /\ UNCHANGED dst
    /\ UNCHANGED << cfg, pfx, q, ring_mutex, stats, shared_stats, src, source, sig,
                    signal_thread_waiting, pending, main_pc, exception, aborted, histVars >>

\* FileDatagramDestination: the batch was empty; leave the loop at eof.
FileIsEof ==
    /\ dst.pc = "is_eof"
    /\ ring_mutex = "none"
    /\ dst' = IF file_done(q) THEN fd_closer([dst EXCEPT !.pc = "force_eof"])
                               ELSE [dst EXCEPT !.pc = "consume"]
    /\ UNCHANGED << cfg, pfx, ringVars, src, source, sig, signal_thread_waiting, pending, main_pc,
                    exception, aborted, histVars >>

\* FileDatagramDestination: write() / writev() of the batch succeeded.
FileWrite ==
    /\ dst.pc = "write"
    /\ written' = written \o BatchBytes(q, dst.batch)
    /\ dst' = [dst EXCEPT !.pc = "commit"]
    /\ UNCHANGED << cfg, pfx, ringVars, src, source, sig, signal_thread_waiting, pending, main_pc,
                    exception, aborted, produced, consumed, sent, thrown, n_arrived,
                    n_sigint_sent >>

\* FileDatagramDestination: write() / writev() returned a count from 0 to
\* below the batch's length: the output took a part of the batch.  ret is
\* tested for ret < 0 only, so the sink goes on to commit.
FileWriteShort ==
    /\ dst.pc = "write"
    /\ \E ret \in {0, dst.batch.n - 1} :
         written' = written \o Take(BatchBytes(q, dst.batch), ret)
    /\ dst' = [dst EXCEPT !.pc = "commit"]
    /\ UNCHANGED << cfg, pfx, ringVars, src, source, sig, signal_thread_waiting, pending, main_pc,
                    exception, aborted, produced, consumed, sent, thrown, n_arrived,
                    n_sigint_sent >>

\* FileDatagramDestination: write() / writev() returned < 0.
FileWriteFails ==
    /\ dst.pc = "write"
    /\ dst' = fd_closer([dst EXCEPT !.pc = "store_exc", !.exc = "write_failed"])
    /\ UNCHANGED << cfg, pfx, ringVars, src, source, sig, signal_thread_waiting, pending, main_pc,
                    exception, aborted, histVars >>

\* next_send_time += send_interval: the schedule advances from its own last
\* value, whatever the clock says.
next_send(interval, next_send_time, now) == next_send_time + interval

\* UdpDatagramDestination: after the rate gate (with a send interval, sleep
\* until the clock reaches next_send_time), sendmsg() of the batch; then the
\* schedule advances.
UdpSend ==
    /\ dst.pc = "send"
    /\ cfg.send_interval /= 0 => dst.now >= dst.next_send_time
    /\ sent' = Append(sent, BatchBytes(q, dst.batch))
    /\ dst' = IF cfg.send_interval = 0 THEN [dst EXCEPT !.pc = "commit"]
              ELSE [dst EXCEPT !.pc = "commit",
                               !.next_send_time = next_send(cfg.send_interval, @, dst.now),
                               !.send_times = Append(@, dst.now)]
    /\ UNCHANGED << cfg, pfx, ringVars, src, source, sig, signal_thread_waiting, pending, main_pc,
                    exception, aborted, produced, consumed, written, thrown, n_arrived,
                    n_sigint_sent >>

\* UdpDatagramDestination: sendmsg() returned < 0.
UdpSendFails ==
    /\ dst.pc = "send"
    /\ dst' = fd_closer([dst EXCEPT !.pc = "store_exc", !.exc = "sendmsg_failed"])
    /\ UNCHANGED << cfg, pfx, ringVars, src, source, sig, signal_thread_waiting, pending, main_pc,
                    exception, aborted, histVars >>

\* The byte count the sink passes to consumer_commit_batch: batch.n in the
\* stream sink, batch.n + PREFIX_LEN (the prefix was removed) in the UDP sink.
commit_size(kind, batch) == IF kind = "file" THEN batch.n ELSE batch.n + PREFIX_LEN

\* The k bytes of the ring's storage that follow the first seen bytes at
\* consumer_index: what a commit beyond the batch frees unseen.
BeyondBatch(r, seen, k) ==
    [j \in 1..k |-> r.data[(r.consumer_index + seen + j - 1) % max_backlog]]

\* consumer_commit_batch(n): more than the ring holds is an error; else move
\* consumer_index, lower _n and notify.  returned is the caller once the call
\* has returned.
consumer_commit_batch(n, returned) ==
    /\ n = 0 \/ ring_mutex = "none"
    /\ IF n = 0
       THEN /\ dst' = returned
            /\ UNCHANGED << q, cv_waiters, consumed >>
       ELSE IF n > q.n
       THEN /\ dst' = fd_closer([dst EXCEPT !.pc = "store_exc", !.exc = "freed_too_many"])
            /\ UNCHANGED << q, cv_waiters, consumed >>
       ELSE /\ q' = consumer_commit(q, n)
            /\ consumed' = consumed \o Take(BatchBytes(q, dst.view), Min(n, dst.view.n))
                                     \o BeyondBatch(q, dst.view.n, n - dst.view.n)
            /\ cv_waiters' = notify_all(cv_waiters)
            /\ dst' = returned

\* The sink's consumer_commit_batch call.
DstCommit ==
    /\ dst.pc = "commit"
    /\ consumer_commit_batch(commit_size(cfg.dst_kind, dst.batch), [dst EXCEPT !.pc = "consume"])
    /\ UNCHANGED << cfg, pfx, ring_mutex, stats, shared_stats, src, source, sig,
                    signal_thread_waiting, pending, main_pc, exception, aborted, produced,
                    written, sent, thrown, n_arrived, n_sigint_sent >>

\* The sink lambda's catch block: store the exception if the slot is empty.
DstStoreException ==
    /\ dst.pc = "store_exc"
    /\ exception' = store_exception(exception, dst.exc)
    /\ thrown' = Append(thrown, dst.exc)
    /\ dst' = [dst EXCEPT !.pc = "force_eof"]
    /\ UNCHANGED << cfg, pfx, ringVars, src, source, sig, signal_thread_waiting, pending, main_pc,
                    aborted, produced, consumed, written, sent, n_arrived, n_sigint_sent >>

\* The sink lambda's last statement, _source->force_eof(): first the flag.
DstForceEofFlag ==
    /\ dst.pc = "force_eof"
    /\ source' = force_eof_flag(source)
    /\ dst' = [dst EXCEPT !.pc = "force_eof_close"]
    /\ UNCHANGED << cfg, pfx, ringVars, src, sig, signal_thread_waiting, pending, main_pc,
                    exception, aborted, histVars >>

\* ... then close(), and the sink thread ends.
DstForceEofClose ==
    /\ dst.pc = "force_eof_close"
    /\ source' = close_source(source)
    /\ dst' = [dst EXCEPT !.pc = "exited"]
    /\ UNCHANGED << cfg, pfx, ringVars, src, sig, signal_thread_waiting, pending, main_pc,
                    exception, aborted, histVars >>

\* ------------------------------------------------------ signal thread ----

\* DatagramCopier::handle_signals, entry: _signal_thread_waiting = true.
SigStart ==
    /\ sig.pc = "start"
    /\ signal_thread_waiting' = TRUE
    /\ sig' = [sig EXCEPT !.pc = "check_eof"]
    /\ UNCHANGED << cfg, pfx, ringVars, src, source, dst, pending, main_pc, exception, aborted,
                    histVars >>

\* The loop's first test: leave when the ring is at eof, else go to sigwait.
SigCheckEof ==
    /\ sig.pc = "check_eof"
    /\ ring_mutex = "none"
    /\ sig' = [sig EXCEPT !.pc = IF q.is_eof THEN "finish" ELSE "sigwait"]
    /\ UNCHANGED << cfg, pfx, ringVars, src, source, dst, signal_thread_waiting, pending, main_pc,
                    exception, aborted, histVars >>

\* sigwait returns one pending signal of the set.
SigWait ==
    /\ sig.pc = "sigwait"
    /\ \E s \in pending :
         /\ sig' = [sig EXCEPT !.pc = "woke", !.sig = s]
         /\ pending' = pending \ {s}
    /\ UNCHANGED << cfg, pfx, ringVars, src, source, dst, signal_thread_waiting, main_pc,
                    exception, aborted, histVars >>

\* Whether the thread leaves its loop on waking instead of acting on the
\* signal: the second is_eof() test.
leave_on_wake(r) == r.is_eof

\* After sigwait: the second is_eof() test, under the ring mutex; leave at
\* eof, else go on to the switch.
SigWoke ==
    /\ sig.pc = "woke"
    /\ ring_mutex = "none"
    /\ sig' = [sig EXCEPT !.pc = IF leave_on_wake(q) THEN "finish" ELSE "dispatch"]
    /\ UNCHANGED << cfg, pfx, ringVars, src, source, dst, signal_thread_waiting, pending, main_pc,
                    exception, aborted, histVars >>

\* The switch on the signal: SIGINT counts, the second one is exit(1), which
\* ends every thread of the process; the first leads to force_eof(); SIGUSR1
\* leads to the stats dump.
SigDispatch ==
    /\ sig.pc = "dispatch"
    /\ IF sig.sig = "SIGINT"
       THEN IF sig.n_sigint + 1 >= 2
            THEN /\ sig' = [sig EXCEPT !.n_sigint = @ + 1, !.pc = "exit1"]
                 /\ aborted' = TRUE
                 /\ src' = [src EXCEPT !.pc = "killed"]
                 /\ dst' = [dst EXCEPT !.pc = "killed"]
                 /\ main_pc' = "killed"
            ELSE /\ sig' = [sig EXCEPT !.n_sigint = @ + 1, !.pc = "force_eof"]
                 /\ UNCHANGED << aborted, src, dst, main_pc >>
       ELSE /\ sig' = [sig EXCEPT !.pc = "stats"]
            /\ UNCHANGED << aborted, src, dst, main_pc >>
    /\ UNCHANGED << cfg, pfx, ringVars, source, signal_thread_waiting, pending, exception,
                    histVars >>

\* force_eof() from the signal thread: first the flag ...
SigForceEofFlag ==
    /\ sig.pc = "force_eof"
    /\ source' = force_eof_flag(source)
    /\ sig' = [sig EXCEPT !.pc = "force_eof_close"]
    /\ UNCHANGED << cfg, pfx, ringVars, src, dst, signal_thread_waiting, pending, main_pc,
                    exception, aborted, histVars >>

\* ... then close(), and back to the top of the loop.
SigForceEofClose ==
    /\ sig.pc = "force_eof_close"
    /\ source' = close_source(source)
    /\ sig' = [sig EXCEPT !.pc = "check_eof"]
    /\ UNCHANGED << cfg, pfx, ringVars, src, dst, signal_thread_waiting, pending, main_pc,
                    exception, aborted, histVars >>

\* The counters of a ring that has seen no datagram.
NoStats == [max_backlog_bytes |-> 0, n_datagrams |-> 0, n_datagrams_discarded |-> 0,
            n_datagram_bytes |-> 0]

\* The copies of the counters a memberwise copy can make while a memberwise
\* assignment takes them from a to b: each field is the one or the other's.
Mixes(a, b) ==
    [max_backlog_bytes : {a.max_backlog_bytes, b.max_backlog_bytes},
     n_datagrams : {a.n_datagrams, b.n_datagrams},
     n_datagrams_discarded : {a.n_datagrams_discarded, b.n_datagrams_discarded},
     n_datagram_bytes : {a.n_datagram_bytes, b.n_datagram_bytes}]

\* The stats groups in the order LockableDgCatStats::get() copies them.
next_group(group) ==
    IF group = "source_stats" THEN "destination_stats" ELSE "buffer_stats"

\* A get() that keeps a group's mutex when it returns.
held_after_get_keeping(held, group) == held

\* LockableStats::get() returns: its lock_guard releases the group's mutex.
held_after_get(held, group) == held \ {group}

\* SIGUSR1: get_stats() takes the Copier's mutex and calls
\* LockableDgCatStats::get(), which starts at the source stats.
SigDumpStats ==
    /\ sig.pc = "stats"
    /\ sig' = [sig EXCEPT !.pc = "stats_get", !.held = {"copier"}, !.group = "source_stats"]
    /\ UNCHANGED << cfg, pfx, ringVars, src, source, dst, signal_thread_waiting, pending, main_pc,
                    exception, aborted, histVars >>

\* LockableStats::get() of the group at hand takes the group's mutex and
\* begins the copy of its fields.  The ring publishes with
\* _shared_stats = _stats, which for a plain DgBufferStats operand is
\* operator=(const _T&): it holds neither mutex, only the ring's.
SigStatsLock ==
    /\ sig.pc = "stats_get"
    /\ sig.group \notin src.held
    /\ sig' = [sig EXCEPT !.pc = "stats_copy", !.held = @ \cup {sig.group},
                          !.seen = IF sig.group = "buffer_stats" THEN shared_stats ELSE @]
    /\ UNCHANGED << cfg, pfx, ringVars, src, source, dst, signal_thread_waiting, pending, main_pc,
                    exception, aborted, histVars >>

\* get() ends its copy and releases the group's mutex; after the last group
\* get_stats() returns the copy and releases the Copier's mutex.  A
\* publication of the ring since the copy of buffer_stats began ran
\* unsynchronised with it: a data race, after which the copy may hold fields
\* of either set of counters.
SigDumpStatsCopy ==
    /\ sig.pc = "stats_copy"
    /\ IF sig.group = "buffer_stats"
       THEN \E copy \in Mixes(sig.seen, shared_stats) :
              sig' = [sig EXCEPT !.pc = "stats_print", !.snapshot = copy,
                                 !.points = {sig.seen, shared_stats},
                                 !.held = {}, !.group = "none"]
       ELSE sig' = [sig EXCEPT !.pc = "stats_get", !.group = next_group(sig.group),
                               !.held = held_after_get(@, sig.group)]
    /\ UNCHANGED << cfg, pfx, ringVars, src, source, dst, signal_thread_waiting, pending, main_pc,
                    exception, aborted, histVars >>

\* The brief line goes to stderr and the copy's lifetime ends; back to the
\* top of the loop.
SigPrintStats ==
    /\ sig.pc = "stats_print"
    /\ sig' = [sig EXCEPT !.pc = "check_eof", !.seen = NoStats, !.snapshot = NoStats,
                          !.points = {NoStats}]
    /\ UNCHANGED << cfg, pfx, ringVars, src, source, dst, signal_thread_waiting, pending, main_pc,
                    exception, aborted, histVars >>

\* After the loop: _signal_thread_waiting = false, _cond.notify_all().
SigFinish ==
    /\ sig.pc = "finish"
    /\ signal_thread_waiting' = FALSE
    /\ sig' = [sig EXCEPT !.pc = "exited"]
    /\ UNCHANGED << cfg, pfx, ringVars, src, source, dst, pending, main_pc, exception, aborted,
                    histVars >>

\* ------------------------------------- clients of the ring's interface ----

\* The arguments the clients pass: producer_reserve_bytes(n_min),
\* consumer_start_batch(n_min, n_max).
ReserveSizes == {0, PREFIX_LEN + Bufsize, max_backlog + 1}

ConsumeMins == {0, 1, PREFIX_LEN, max_backlog + 1}

ConsumeMaxs == {1, MaxWriteSize, max_backlog}

\* The producer calls producer_commit_batch, with or without a deadline.
ClientCommitBatch ==
    /\ src.pc = "call"
    /\ \E timed \in BOOLEAN :
         \E k \in 1..Min(MaxIovecs, cfg.src.n - n_arrived) :
           \E lens \in [1..k -> cfg.wire_lens] :
              /\ src' = [src EXCEPT !.pc = "commit", !.timed = timed,
                                    !.msgs = [j \in 1..k |-> SlotMsg(n_arrived + j, lens[j])]]
              /\ n_arrived' = n_arrived + k
    /\ UNCHANGED << cfg, pfx, ringVars, source, dst, sig, signal_thread_waiting, pending, main_pc,
                    exception, aborted, produced, consumed, written, sent, thrown,
                    n_sigint_sent >>

\* producer_reserve_bytes(n_min), with or without a deadline: a set eof is a
\* logic error; n_min is clamped to the ring's size; wait for the room.
ClientReserve ==
    /\ src.pc = "call"
    /\ ring_mutex = "none"
    /\ \E timed \in BOOLEAN : \E n \in ReserveSizes :
         LET n_min == Min(n, max_backlog) IN
         IF producer_refused(q)
         THEN /\ src' = [src EXCEPT !.pc = "store_exc", !.exc = "write_after_eof"]
              /\ UNCHANGED cv_waiters
         ELSE IF n_min > n_free_locked(q)
         THEN /\ src' = [src EXCEPT !.pc = "reserve_wait", !.timed = timed, !.n_min = n_min]
              /\ cv_waiters' = cv_waiters \cup {"src"}
         ELSE UNCHANGED << src, cv_waiters >>
    /\ UNCHANGED << cfg, pfx, q, ring_mutex, stats, shared_stats, source, dst, sig,
                    signal_thread_waiting, pending, main_pc, exception, aborted, histVars >>

\* producer_reserve_bytes: the wait returns, notified.
ClientReserveWake ==
    /\ src.pc = "reserve_wait"
    /\ "src" \notin cv_waiters
    /\ ring_mutex = "none"
    /\ IF q.n + src.n_min <= max_backlog
       THEN /\ src' = [src EXCEPT !.pc = "call", !.timed = FALSE, !.n_min = 0]
            /\ UNCHANGED cv_waiters
       ELSE /\ cv_waiters' = cv_waiters \cup {"src"}
            /\ UNCHANGED src
    /\ UNCHANGED << cfg, pfx, q, ring_mutex, stats, shared_stats, source, dst, sig,
                    signal_thread_waiting, pending, main_pc, exception, aborted, histVars >>

\* The timed producer_reserve_bytes: the wait ran out of time.
ClientReserveTimeout ==
    /\ src.pc = "reserve_wait"
    /\ src.timed
    /\ ring_mutex = "none"
    /\ src' = [src EXCEPT !.pc = "call", !.timed = FALSE, !.n_min = 0]
    /\ cv_waiters' = cv_waiters \ {"src"}
    /\ UNCHANGED << cfg, pfx, q, ring_mutex, stats, shared_stats, source, dst, sig,
                    signal_thread_waiting, pending, main_pc, exception, aborted, histVars >>

\* The producer calls producer_set_eof.
ClientSetEof ==
    /\ src.pc = "call"
    /\ ring_mutex = "none"
    /\ q' = set_eof(q)
    /\ cv_waiters' = notify_all(cv_waiters)
    /\ UNCHANGED << cfg, pfx, ring_mutex, stats, shared_stats, src, source, dst, sig,
                    signal_thread_waiting, pending, main_pc, exception, aborted, histVars >>

\* A call of the producer raised: the producer thread ends.
ProducerRaised ==
    /\ src.pc = "store_exc"
    /\ thrown' = Append(thrown, src.exc)
    /\ src' = [src EXCEPT !.pc = "exited"]
    /\ UNCHANGED << cfg, pfx, ringVars, source, dst, sig, signal_thread_waiting, pending, main_pc,
                    exception, aborted, produced, consumed, written, sent, n_arrived,
                    n_sigint_sent >>

\* The consumer chooses the arguments of its next consumer_start_batch.
ClientStartBatch ==
    /\ dst.pc = "pick"
    /\ \E n_min \in ConsumeMins : \E n_max \in ConsumeMaxs :
         dst' = [dst EXCEPT !.pc = "consume", !.n_min = n_min, !.n_max = n_max]
    /\ UNCHANGED << cfg, pfx, ringVars, src, source, sig, signal_thread_waiting, pending, main_pc,
                    exception, aborted, histVars >>

\* The consumer calls consumer_commit_batch(n) for some or all of the batch
\* it holds, for one byte more than the batch, or for more than the ring has.
ClientCommit ==
    /\ dst.pc = "client_commit"
    /\ \E n \in (0..(dst.batch.n + 1)) \cup {q.n + 1} :
         consumer_commit_batch(n, [dst EXCEPT !.pc = "pick", !.n_min = 0, !.n_max = 0,
                                              !.view = ConsumerBatch(0, 0, 0, 0),
                                              !.batch = ConsumerBatch(0, 0, 0, 0)])
    /\ UNCHANGED << cfg, pfx, ring_mutex, stats, shared_stats, src, source, sig,
                    signal_thread_waiting, pending, main_pc, exception, aborted, produced,
                    written, sent, thrown, n_arrived, n_sigint_sent >>

\* A call of the consumer raised: the consumer thread ends.
ConsumerRaised ==
    /\ dst.pc = "store_exc"
    /\ thrown' = Append(thrown, dst.exc)
    /\ dst' = [dst EXCEPT !.pc = "exited"]
    /\ UNCHANGED << cfg, pfx, ringVars, src, source, sig, signal_thread_waiting, pending, main_pc,
                    exception, aborted, produced, consumed, written, sent, n_arrived,
                    n_sigint_sent >>

\* -------------------------------------------------------- main thread ----

\* DatagramCopier::start: the signal thread (with handle_signals), the sink
\* thread and the source thread.
Start ==
    /\ main_pc = "start"
    /\ sig' = [sig EXCEPT !.pc = IF cfg.handle_signals THEN "start" ELSE "none"]
    /\ dst' = [dst EXCEPT !.pc = "consume", !.n_min = PREFIX_LEN, !.n_max = max_backlog,
                          !.next_send_time = dst.now]
    /\ src' = [src EXCEPT !.pc = ProducerIdle]
    /\ main_pc' = "join_src"
    /\ UNCHANGED << cfg, pfx, ringVars, source, signal_thread_waiting, pending, exception,
                    aborted, histVars >>

\* wait(): _source_thread.join().
MainJoinSrc ==
    /\ main_pc = "join_src"
    /\ src.pc = "exited"
    /\ main_pc' = "join_dst"
    /\ UNCHANGED << cfg, pfx, ringVars, src, source, dst, sig, signal_thread_waiting, pending,
                    exception, aborted, histVars >>

\* wait(): _destination_thread.join().
MainJoinDst ==
    /\ main_pc = "join_dst"
    /\ dst.pc = "exited"
    /\ main_pc' = IF cfg.handle_signals THEN "sig_kill" ELSE "rethrow"
    /\ UNCHANGED << cfg, pfx, ringVars, src, source, dst, sig, signal_thread_waiting, pending,
                    exception, aborted, histVars >>

\* A wait() that sends the signal thread nothing.
pthread_kill_nothing(p) == p

\* pthread_kill(_signal_thread.native_handle(), SIGUSR1): the signal is
\* pending for the signal thread.
pthread_kill(p) == p \cup {"SIGUSR1"}

\* wait(): pthread_kill(SIGUSR1), then the first test of the waiting flag.
MainKill ==
    /\ main_pc = "sig_kill"
    /\ pending' = pthread_kill(pending)
    /\ main_pc' = IF signal_thread_waiting THEN "sig_wait_for" ELSE "join_sig"
    /\ UNCHANGED << cfg, pfx, ringVars, src, source, dst, sig, signal_thread_waiting, exception,
                    aborted, histVars >>

\* wait(): _cond.wait_for returned (notified, or after a second); the second
\* test of the flag.
MainWaitFor ==
    /\ main_pc = "sig_wait_for"
    /\ main_pc' = IF signal_thread_waiting THEN "sig_kill" ELSE "join_sig"
    /\ UNCHANGED << cfg, pfx, ringVars, src, source, dst, sig, signal_thread_waiting, pending,
                    exception, aborted, histVars >>

\* wait(): _signal_thread.join().
MainJoinSig ==
    /\ main_pc = "join_sig"
    /\ sig.pc = "exited"
    /\ main_pc' = "rethrow"
    /\ UNCHANGED << cfg, pfx, ringVars, src, source, dst, sig, signal_thread_waiting, pending,
                    exception, aborted, histVars >>

\* wait(): rethrow the stored exception, or return.
MainRethrow ==
    /\ main_pc = "rethrow"
    /\ main_pc' = IF exception /= "none" THEN "raised" ELSE "returned"
    /\ UNCHANGED << cfg, pfx, ringVars, src, source, dst, sig, signal_thread_waiting, pending,
                    exception, aborted, histVars >>

\* ~DatagramCopier after wait(): close() calls force_eof() and wait() again.
\* With nothing left to join, wait() rethrows a stored exception, which ends
\* the process in the destructor; otherwise the members are destroyed, and
\* ~UdpDatagramSource and the sink's destructor call close().
MainDestroy ==
    /\ main_pc \in {"returned", "raised"}
    /\ IF exception /= "none"
       THEN /\ source' = close_source(force_eof_flag(source))
            /\ main_pc' = "terminated"
            /\ UNCHANGED dst
       ELSE /\ source' = close_source(close_source(force_eof_flag(source)))
            /\ dst' = close_destination(dst)
            /\ main_pc' = "destroyed"
    /\ UNCHANGED << cfg, pfx, ringVars, src, sig, signal_thread_waiting, pending, exception,
                    aborted, histVars >>

\* -------------------------------------------------------- environment ----

\* wait() has returned (and the Copier may have been destroyed since).
Returned == main_pc \in {"returned", "destroyed"}

\* wait() has raised (and the destructor may have ended the process since).
Raised == main_pc \in {"raised", "terminated"}

\* wait() has ended: the Copier is Terminal.
Terminal == Returned \/ Raised

\* A SIGINT reaches the process (blocked in every thread, so it stays
\* pending for sigwait).  A further one is sent only once the previous one
\* was taken, so that each is a signal of its own.
DeliverSigint ==
    /\ cfg.handle_signals
    /\ ~aborted
    /\ main_pc /= "start"
    /\ ~Terminal
    /\ n_sigint_sent < MaxSigint
    /\ "SIGINT" \notin pending
    /\ sig.pc \notin {"woke", "dispatch"}
    /\ pending' = pending \cup {"SIGINT"}
    /\ n_sigint_sent' = n_sigint_sent + 1
    /\ UNCHANGED << cfg, pfx, ringVars, src, source, dst, sig, signal_thread_waiting, main_pc,
                    exception, aborted, produced, consumed, written, sent, thrown,
                    n_arrived >>

\* A SIGUSR1 from outside reaches the process.
DeliverSigusr1 ==
    /\ cfg.handle_signals
    /\ ~aborted
    /\ main_pc /= "start"
    /\ ~Terminal
    /\ "SIGUSR1" \notin pending
    /\ pending' = pending \cup {"SIGUSR1"}
    /\ UNCHANGED << cfg, pfx, ringVars, src, source, dst, sig, signal_thread_waiting, main_pc,
                    exception, aborted, histVars >>

\* ---------------------------------------------------- specifications ----

SrcNext ==
    \/ SrcRecvDatagrams \/ SrcRecvTimeout \/ SrcRecvError \/ SrcRecvBadFd
    \/ SrcCommitLock \/ SrcCommitMsg \/ SrcCommitWake \/ SrcCommitPayload
    \/ SrcStatsLock \/ SrcStatsUnlock \/ SrcStoreException \/ SrcSetEof

\* The source's steps that do not wait for the network.
SrcRuns ==
    \/ SrcRecvBadFd
    \/ SrcCommitLock \/ SrcCommitMsg \/ SrcCommitWake \/ SrcCommitPayload
    \/ SrcStatsLock \/ SrcStatsUnlock \/ SrcStoreException \/ SrcSetEof

DstNext ==
    \/ DstConsume \/ DstConsumeWake \/ FileIsEof \/ FileWrite \/ FileWriteFails
    \/ UdpSend \/ UdpSendFails \/ DstCommit \/ DstStoreException
    \/ DstForceEofFlag \/ DstForceEofClose

SigThreadNext ==
    \/ SigStart \/ SigCheckEof \/ SigWait \/ SigWoke \/ SigDispatch \/ SigForceEofFlag
    \/ SigForceEofClose \/ SigDumpStats \/ SigStatsLock \/ SigDumpStatsCopy \/ SigPrintStats
    \/ SigFinish

MainNext ==
    \/ Start \/ MainJoinSrc \/ MainJoinDst \/ MainKill \/ MainWaitFor \/ MainJoinSig
    \/ MainRethrow \/ MainDestroy

EnvNext == DeliverSigint \/ DeliverSigusr1

\* wait() without a signal thread.
CoreMainNext == Start \/ MainJoinSrc \/ MainJoinDst \/ MainRethrow \/ MainDestroy

\* The Copier without signal handling, stream or UDP sink, every datagram
\* length on the wire.
Init == InitWith({"file", "udp"}, {FALSE}, WireLens, FALSE, RoomyBacklog, UdpSrc, 0, {0}) /\ pfx = NoCall

Next == SrcNext \/ DstNext \/ CoreMainNext

Spec == Init /\ [][Next]_vars

\* Every thread that can run is scheduled; the network is under no
\* obligation to deliver or to time out.
FairSpec ==
    /\ Spec
    /\ WF_vars(SrcRuns)
    /\ WF_vars(DstNext)
    /\ WF_vars(CoreMainNext)

\* The payload lengths of the frames in a stream source's input: none, a
\* datagram's worth, and more than max_read_size.
FileLens == {0, Bufsize, MaxReadSize + 1}

\* The frames of datagrams k, k + 1, ... with the payload lengths lens.
RECURSIVE StreamOf(_, _)
StreamOf(lens, k) ==
    IF lens = << >> THEN << >>
    ELSE native_to_big(Head(lens)) \o Payload(k, Head(lens)) \o StreamOf(Tail(lens), k + 1)

\* The stream source on every well-formed input of up to MaxDatagrams
\* frames; the input may end before its last byte (FsrcEof).
FileSrcs ==
    { [kind |-> "file", input |-> StreamOf(lens, 1), n |-> 0,
        start_timeout |-> 1, eof_timeout |-> 1] :
        lens \in UNION { [1..n -> FileLens] : n \in 0..MaxDatagrams } }

FileSrcInit == InitWith({"file", "udp"}, {FALSE}, {}, FALSE, RoomyBacklog, FileSrcs, 0, {0}) /\ pfx = NoCall

FsrcNext ==
    \/ FsrcRead \/ FsrcEof \/ FsrcReadError \/ FsrcBadFd
    \/ SrcCommitLock \/ SrcCommitMsg \/ SrcCommitWake \/ SrcCommitPayload
    \/ SrcStatsLock \/ SrcStatsUnlock \/ SrcStoreException \/ SrcSetEof

\* The stream source's steps that do not wait for input.
FsrcRuns ==
    \/ FsrcBadFd
    \/ SrcCommitLock \/ SrcCommitMsg \/ SrcCommitWake \/ SrcCommitPayload
    \/ SrcStatsLock \/ SrcStatsUnlock \/ SrcStoreException \/ SrcSetEof

FileSrcNext == FsrcNext \/ DstNext \/ CoreMainNext

\* 1 / max_datagram_rate, in ticks of the steady clock.
SendInterval == 1

\* The steady clock's last tick: time for a stall after which the schedule is
\* a datagram behind for each datagram of the source.
MaxTime == MaxDatagrams * SendInterval

\* The steady clock advances.
Tick ==
    /\ dst.now < MaxTime
    /\ dst' = [dst EXCEPT !.now = @ + 1]
    /\ UNCHANGED << cfg, pfx, ringVars, src, source, sig, signal_thread_waiting, pending, main_pc,
                    exception, aborted, histVars >>

\* The UDP source receiving one datagram more than MaxDatagrams, all empty.
BurstSrc == {[kind |-> "udp", input |-> << >>, n |-> MaxDatagrams + 1,
              start_timeout |-> 1, eof_timeout |-> 1]}

RateInit == InitWith({"udp"}, {FALSE}, {0}, FALSE, RoomyBacklog, BurstSrc, SendInterval, {0}) /\ pfx = NoCall

UdpDstNext ==
    \/ DstConsume \/ DstConsumeWake \/ UdpSend \/ UdpSendFails \/ DstCommit
    \/ DstStoreException \/ DstForceEofFlag \/ DstForceEofClose

RateNext == SrcNext \/ UdpDstNext \/ CoreMainNext \/ Tick

\* The Copier without signal handling, UDP to UDP under max_datagram_rate,
\* with the steady clock.
RateSpec == RateInit /\ [][RateNext]_vars

\* The lengths passed to write_length_prefix: every size_t whose low four
\* bytes are 0, 1 or 255 each and whose high four are 0 or 1 each.
PrefixLens ==
    { [i \in 1..SizeBytes |-> IF i <= PREFIX_LEN THEN lo[i] ELSE hi[i - PREFIX_LEN]] :
        lo \in [1..PREFIX_LEN -> {0, 1, 255}], hi \in [1..(SizeBytes - PREFIX_LEN) -> {0, 1}] }

\* What the caller's buffer holds before the call.
Unwritten == [i \in 1..PREFIX_LEN |-> 170]

\* A caller about to write the prefix of some length into a fresh buffer.
PrefixInit ==
    /\ InitWith({"client"}, {FALSE}, {0}, TRUE, RoomyBacklog, UdpSrc, 0, {0})
    /\ pfx \in [pc : {"write"}, len : PrefixLens, buffer : {Unwritten},
                result : {NoCall.result}]

\* The caller writes the prefix.
WriteLengthPrefix ==
    /\ pfx.pc = "write"
    /\ LET r == write_length_prefix(pfx.len, pfx.buffer) IN
         pfx' = [pfx EXCEPT !.pc = IF r.raised THEN "raised" ELSE "read",
                            !.buffer = r.buffer]
    /\ UNCHANGED << cfg, ringVars, src, source, dst, sig, signal_thread_waiting, pending,
                    main_pc, exception, aborted, histVars >>

\* The caller reads the prefix back.
ReadLengthPrefix ==
    /\ pfx.pc = "read"
    /\ pfx' = [pfx EXCEPT !.pc = "done", !.result = read_length_prefix(pfx.buffer)]
    /\ UNCHANGED << cfg, ringVars, src, source, dst, sig, signal_thread_waiting, pending,
                    main_pc, exception, aborted, histVars >>

PrefixNext == WriteLengthPrefix \/ ReadLengthPrefix

\* The prefix functions alone, on every length of PrefixLens.
PrefixSpec == PrefixInit /\ [][PrefixNext]_vars

\* The UDP source under each choice of start_timeout and eof_timeout among
\* none (0) and one second.
TimeoutSrcs ==
    [kind : {"udp"}, input : {<< >>}, n : {MaxDatagrams}, start_timeout : {0, 1},
     eof_timeout : {0, 1}]

TimeoutInit ==
    InitWith({"file", "udp"}, {FALSE}, {0, Bufsize}, FALSE, RoomyBacklog, TimeoutSrcs, 0,
             {0}) /\ pfx = NoCall

\* The Copier without signal handling, with and without receive timeouts.
TimeoutSpec == TimeoutInit /\ [][Next]_vars

\* config.max_datagrams: a limit below the number of datagrams the network
\* delivers.
DatagramLimit == 1

LimitInit ==
    InitWith({"file", "udp"}, {FALSE}, {0, Bufsize}, FALSE, RoomyBacklog, UdpSrc, 0,
             {DatagramLimit}) /\ pfx = NoCall

\* The Copier without signal handling under max_datagrams > 0.  No step of
\* the Copier, the sources or the sinks reads config.max_datagrams.
LimitSpec == LimitInit /\ [][Next]_vars

\* The Copier without signal handling, reading a stream.
FileSrcSpec == FileSrcInit /\ [][FileSrcNext]_vars

FairFileSrcSpec ==
    /\ FileSrcSpec
    /\ WF_vars(FsrcRuns)
    /\ WF_vars(DstNext)
    /\ WF_vars(CoreMainNext)

\* The Copier without signal handling on an output that may take a part of
\* what a write call offers.
ShortNext == SrcNext \/ DstNext \/ CoreMainNext \/ FileWriteShort

ShortSpec == Init /\ [][ShortNext]_vars

\* The Copier without signal handling on a ring too small for the largest
\* datagram.
TightInit == InitWith({"file", "udp"}, {FALSE}, WireLens, FALSE, TightBacklog, UdpSrc, 0, {0}) /\ pfx = NoCall

TightSpec == TightInit /\ [][Next]_vars

FairTightSpec ==
    /\ TightSpec
    /\ WF_vars(SrcRuns)
    /\ WF_vars(DstNext)
    /\ WF_vars(CoreMainNext)

\* The Copier with signal handling; the network delivers datagrams of the
\* largest length only.
SigInit == InitWith({"file", "udp"}, {TRUE}, {Bufsize}, FALSE, RoomyBacklog, UdpSrc, 0, {0}) /\ pfx = NoCall

SigNext == SrcNext \/ DstNext \/ SigThreadNext \/ MainNext \/ EnvNext

SigSpec == SigInit /\ [][SigNext]_vars

\* A worker blocked on the mutex of its stats gets it at one of the unlocks
\* of get(): strong fairness for that step.
FairSigSpec ==
    /\ SigSpec
    /\ WF_vars(SrcRuns)
    /\ SF_vars(SrcStatsLock)
    /\ WF_vars(DstNext)
    /\ WF_vars(SigThreadNext)
    /\ WF_vars(MainNext)

\* The ring alone, under one producer thread and one consumer thread that
\* call its interface as they please.
RingInit == InitWith({"client"}, {FALSE}, {0, Bufsize, Bufsize + 1}, TRUE, RoomyBacklog, UdpSrc, 0, {0}) /\ pfx = NoCall

ProducerNext ==
    \/ ClientCommitBatch \/ SrcCommitLock \/ SrcCommitMsg \/ SrcCommitWake
    \/ SrcCommitTimeout \/ SrcCommitPayload
    \/ ClientReserve \/ ClientReserveWake \/ ClientReserveTimeout
    \/ ClientSetEof \/ ProducerRaised

ConsumerNext ==
    \/ ClientStartBatch \/ DstConsume \/ DstConsumeWake \/ ClientCommit \/ ConsumerRaised

RingNext == ProducerNext \/ ConsumerNext

RingSpec == RingInit /\ [][RingNext]_vars

\* ===================================================================== *
\* Properties                                                            *
\* ===================================================================== *

\* The payloads of the whole frames at the front of a byte sequence.
RECURSIVE Frames(_)
Frames(s) ==
    IF Len(s) < PREFIX_LEN THEN << >>
    ELSE LET len == ntohl(Take(s, PREFIX_LEN)) IN
         IF Len(s) < PREFIX_LEN + len THEN << >>
         ELSE << SubSeq(s, PREFIX_LEN + 1, PREFIX_LEN + len) >> \o Frames(Drop(s, PREFIX_LEN + len))

\* The bytes of a byte sequence that follow its whole frames.
RECURSIVE Residue(_)
Residue(s) ==
    IF Len(s) < PREFIX_LEN THEN s
    ELSE LET len == ntohl(Take(s, PREFIX_LEN)) IN
         IF Len(s) < PREFIX_LEN + len THEN s
         ELSE Residue(Drop(s, PREFIX_LEN + len))

\* A byte sequence that is a concatenation of whole frames.
IsFramed(s) == Residue(s) = << >>

\* A worker raised an exception (it is stored, or about to be).
SrcRaised == src.exc /= "none"

DstRaised == dst.exc /= "none"

\* The sink worker left copy_from_buffer_queue without an exception.
DstLeftLoop == dst.pc \in {"force_eof", "force_eof_close", "exited"} /\ ~DstRaised

\* The failures of a system call on a live descriptor.
IoFailures == {"recvmmsg_failed", "write_failed", "sendmsg_failed"}

\* C1: once the sink worker has exited, the source worker exits too and wait()
\* returns, whatever the source was doing, blocked in the commit included.
C1_SinkExitStopsSource == (dst.pc = "exited") ~> (src.pc = "exited" /\ Terminal)

\* C2: in every state of the ring under one producer and one consumer,
\* 0 <= count <= max_backlog, and head and tail lie in [0, max_backlog).
C2_RingBounds ==
    /\ 0 <= q.n /\ q.n <= max_backlog
    /\ q.consumer_index \in 0..(max_backlog - 1)
    /\ q.producer_index \in 0..(max_backlog - 1)

\* C2 witness: the ring is full and its occupied region wraps.
C2_Witness == q.n = max_backlog /\ q.consumer_index > 0

\* C3: the bytes the consumer has removed are a prefix of the bytes the
\* producer has appended, in the same order.
C3_Fifo == IsPrefix(consumed, produced)

\* C3 witness: the consumer has removed all that was appended, more bytes
\* than the ring holds, so its batches crossed the end of the storage.
C3_Witness == Len(consumed) > max_backlog /\ consumed = produced

\* C4: whenever the producer does not hold the ring mutex, the bytes appended
\* so far are a concatenation of whole frames; and the UDP sink, which starts
\* every batch at a frame's prefix, never finds a payload shorter than its
\* prefix says (it never raises n_min).
C4_AtomicFrames ==
    /\ (ring_mutex /= "src") => IsFramed(produced)
    /\ (cfg.dst_kind = "udp" /\ dst.pc /= "idle") => dst.n_min = PREFIX_LEN

\* C4 witness: the producer waits for room in the middle of a batch, the
\* mutex released, a frame with a payload already in the ring.
C4_Witness ==
    /\ src.pc = "commit_wait" /\ ring_mutex = "none" /\ src.i = 2
    /\ ~src.msgs[1].flagged /\ src.msgs[1].msg_len > 0
    /\ q.n > 0

\* C5: the stream sink leaves its loop without an exception only with the
\* ring empty and at eof, every byte appended having been written.
C5_StreamSinkDrains ==
    (cfg.dst_kind = "file" /\ DstLeftLoop) => (q.n = 0 /\ q.is_eof /\ written = produced)

\* C5 witness: the stream sink has left its loop after writing more than a
\* ring's worth of bytes.
C5_Witness == cfg.dst_kind = "file" /\ DstLeftLoop /\ Len(written) > max_backlog

\* C6: once the source worker has exited the ring is at eof; and from the
\* end of the source's copy loop on, the sink (woken if it was waiting) drains
\* the ring and exits, and wait() returns.
C6_SourceExitDrains ==
    /\ [](src.pc = "exited" => q.is_eof)
    /\ [](DstLeftLoop => q.n = 0)
    /\ (src.pc = "copy_done") ~> (dst.pc = "exited" /\ Terminal)

\* C6 witness: the source's copy loop has ended while the sink is blocked
\* in consumer_start_batch.
C6_Witness == src.pc = "copy_done" /\ dst.pc = "consume_wait" /\ "dst" \in cv_waiters

\* C7: the slot holds the exception that was stored first, whatever follows;
\* wait() raises only with a stored exception and after both workers ended,
\* and returns normally exactly when no worker raised.
C7_FirstExceptionKept ==
    /\ exception = (IF thrown = << >> THEN "none" ELSE thrown[1])
    /\ Terminal => (src.pc = "exited" /\ dst.pc = "exited")
    /\ Raised => exception /= "none"
    /\ Terminal => (Returned <=> (~SrcRaised /\ ~DstRaised))

\* C7 witness: both workers raised and wait() has rethrown.
C7_Witness == Len(thrown) = 2 /\ thrown[1] /= thrown[2] /\ main_pc = "raised"

\* C8: the UDP sink's sends are, one for one and in order, the payloads of
\* the frames appended to the ring, and after each commit the bytes removed
\* are exactly the frames sent.
C8_OneSendPerFrame ==
    (cfg.dst_kind = "udp") =>
        /\ IsPrefix(sent, Frames(produced))
        /\ (dst.pc = "consume" => (IsFramed(consumed) /\ Frames(consumed) = sent))

\* C8 counterexample trace: two frames are in the ring when the UDP sink
\* starts a batch; one send carries all the bytes behind the first prefix.

\* The signal thread has taken the first SIGINT and called force_eof().
FirstInterruptTaken == sig.n_sigint >= 1

\* C9: once the signal thread has taken the first SIGINT, force_eof() takes
\* effect and, unless the sink fails or a second SIGINT ends the process, the
\* source worker stops and wait() ends; when wait() returns normally every
\* byte put in the ring went to the sink, and it raises only on the failure
\* of an I/O call.
C9_FirstInterruptDrains ==
    /\ FirstInterruptTaken ~> (source.force_eof /\ source.sock = "closed")
    /\ FirstInterruptTaken ~> (aborted \/ DstRaised \/ (src.pc = "exited" /\ Terminal))
    /\ [](Returned => (consumed = produced /\ q.n = 0))
    /\ []((FirstInterruptTaken /\ Raised) => exception \in IoFailures)

\* C9 witness: the first SIGINT was taken with bytes in the ring, and wait()
\* returned normally after the sink drained them.
C9_Witness ==
    /\ FirstInterruptTaken /\ ~aborted /\ main_pc = "returned"
    /\ Len(consumed) > 0 /\ n_sigint_sent = 1

\* wait() is still joining the workers and the sink worker is still running.
SinkRunning == main_pc \in {"join_src", "join_dst"} /\ dst.pc \notin {"exited", "killed"}

\* C10: a second SIGINT delivered while the sink is still running, wait() not
\* yet past its joins, leads to the process exiting with status 1.
C10_SecondInterruptExits == (n_sigint_sent >= 2 /\ SinkRunning) ~> aborted

\* Both worker threads have ended.
WorkersExited == src.pc = "exited" /\ dst.pc = "exited"

\* The signal thread has passed its eof test with a second SIGINT in hand:
\* its next statement is exit(1).
SecondInterruptInHand == sig.pc = "dispatch" /\ sig.sig = "SIGINT" /\ sig.n_sigint >= 1

\* C11 as stated: once both workers have exited, wait() ends.
C11_WaitTerminates == WorkersExited ~> Terminal

\* C11, amended: once both workers have exited, wait() ends with the signal
\* thread gone and its waiting flag cleared, unless the signal thread had
\* already passed its eof test with a second SIGINT in hand, which ends the
\* process with exit(1).
C11_WaitTerminatesUnlessExit ==
    /\ (WorkersExited /\ ~SecondInterruptInHand) ~>
           (Terminal /\ sig.pc = "exited" /\ ~signal_thread_waiting)
    /\ WorkersExited ~> (Terminal \/ aborted)

\* C11 witness: both workers have exited, the signal thread sits in sigwait
\* with nothing pending, and wait() is in its retry loop.
C11_Witness ==
    /\ WorkersExited /\ sig.pc = "sigwait" /\ pending = {}
    /\ main_pc = "sig_kill" /\ signal_thread_waiting

\* The source's loop ended on an expired receive timeout.
TimedOut == src.why = "timeout"

ForceEofDone == source.force_eof /\ source.closed

\* C13: once force_eof() has taken effect, no step - a further call from the
\* signal thread, the sink worker, close() or a destructor included - changes
\* the source (flag, closed, descriptor, count of ::close calls).
C13_ForceEofIdempotent == [][ForceEofDone => source' = source]_vars

\* C13 witness: the signal thread and the sink worker have both called
\* force_eof(), and the destructor has called it once more.
C13_Witness ==
    /\ ForceEofDone /\ sig.n_sigint >= 1 /\ sig.pc = "exited"
    /\ dst.pc = "exited" /\ main_pc = "destroyed"

\* C14: when wait() is over, the source's socket and the sink's descriptor
\* have each been closed exactly once; no descriptor is ever closed twice.
C14_ClosedExactlyOnce ==
    /\ source.n_close <= 1 /\ dst.n_close <= 1
    /\ Terminal => (source.n_close = 1 /\ dst.n_close = 1)
    /\ source.n_close = (IF source.sock = "closed" THEN 1 ELSE 0)
    /\ dst.n_close = (IF dst.fd = "closed" THEN 1 ELSE 0)

\* C14 witness: wait() returned, the destructors ran, each descriptor was
\* closed once.
C14_Witness ==
    /\ main_pc = "destroyed" /\ source.n_close = 1 /\ dst.n_close = 1
    /\ source.closed /\ dst.closed

\* C15: the ring's eof flag, once set, stays set, and producer_set_eof on a
\* ring at eof changes nothing; on any ring it changes the flag alone.
C15_EofSticky ==
    /\ [][q.is_eof => q'.is_eof]_vars
    /\ [](q.is_eof => set_eof(q) = q)
    /\ []([set_eof(q) EXCEPT !.is_eof = q.is_eof] = q)

\* C15 witness: eof is set with bytes still in the ring and some already
\* consumed, the producer free to call producer_set_eof again.
C15_Witness == q.is_eof /\ q.n > 0 /\ consumed /= << >> /\ src.pc = "call"

\* The producer's last call failed on the ring's eof.
RefusedAfterEof == src.pc = "store_exc" /\ src.exc = "write_after_eof"

\* C16: with eof set, a step of the producer - a reserve, timed or not, or a
\* commit of one or more messages - ends in the write-after-eof error and
\* leaves the ring, the counters and the bytes produced as they were.
C16_ProducerRefusedAfterEof ==
    /\ [][(q.is_eof /\ src' /= src) =>
            /\ q' = q /\ stats' = stats /\ shared_stats' = shared_stats
            /\ produced' = produced
            /\ src.pc = "commit" => (src'.pc = "store_exc" /\ src'.exc = "write_after_eof")
            /\ src.pc = "call" => (src'.pc = "commit" \/
                                   (src'.pc = "store_exc" /\ src'.exc = "write_after_eof"))]_vars
    /\ [](q.is_eof => src.pc \in {"call", "commit", "store_exc", "exited"})

\* C16 witness: a commit of at least one message was refused at eof, with
\* frames still in the ring.
C16_Witness == RefusedAfterEof /\ Len(src.msgs) >= 1 /\ q.is_eof /\ q.n > 0

\* The datagrams whose frames the sink has consumed to the last byte.
FullyConsumed == Len(Frames(consumed))

\* 1 when the sink has consumed a part of a frame and not the rest, else 0.
Straddling == IF IsFramed(consumed) THEN 0 ELSE 1

\* The frames that are in the ring from their first byte to their last.
WholeInRing ==
    Len(Frames(Drop(produced, Len(consumed) - Len(Residue(consumed))))) - Straddling

\* The number of the datagram a payload byte belongs to.
DatagramOf(b) == (b - 1) \div 10

\* The frames appended so far carry, in order of arrival and once each,
\* datagrams that were not discarded.
InCommitOrder ==
    LET fs == Frames(produced)
        ne == { i \in 1..Len(fs) : Len(fs[i]) > 0 }
    IN  /\ \A i \in ne : /\ fs[i] = Payload(DatagramOf(fs[i][1]), Len(fs[i]))
                         /\ DatagramOf(fs[i][1]) \notin src.discarded
                         /\ DatagramOf(fs[i][1]) \in 1..n_arrived
        /\ \A i, j \in ne : i < j => DatagramOf(fs[i][1]) < DatagramOf(fs[j][1])

\* C17 as stated: whenever the producer is outside its critical section,
\* datagrams fully consumed plus whole frames in the ring is n_datagrams.
C17_WholeFramesConserved ==
    (ring_mutex /= "src") => FullyConsumed + WholeInRing = stats.n_datagrams

\* C17, amended: whenever the producer is outside its critical section,
\* datagrams fully consumed, plus whole frames in the ring, plus the one frame
\* the sink has consumed in part, is n_datagrams; each datagram is counted as
\* forwarded or as discarded, never both; the frames are those of
\* undiscarded datagrams in order of arrival, and the sink consumes a prefix
\* of them.
C17_FramesConserved ==
    /\ (ring_mutex /= "src") =>
          /\ FullyConsumed + WholeInRing + Straddling = stats.n_datagrams
          /\ ~SrcRaised => shared_stats = stats
          /\ Cardinality(src.discarded) = stats.n_datagrams_discarded
    /\ (src.pc \in {"recv", "copy_done", "exited"} /\ ~SrcRaised) =>
          stats.n_datagrams + stats.n_datagrams_discarded = n_arrived
    /\ InCommitOrder
    /\ IsPrefix(consumed, produced)

\* C17 witness: a sampling instant with a datagram discarded, a frame
\* consumed whole and the next one consumed in part.
C17_Witness ==
    /\ ring_mutex = "none" /\ Straddling = 1 /\ FullyConsumed >= 1
    /\ src.discarded /= {}

\* The bytes a batch adds to the ring: for each message without a discarding
\* flag, in order, the 4-byte big-endian length and the payload.
RECURSIVE FramesOf(_)
FramesOf(msgs) ==
    IF msgs = << >> THEN << >>
    ELSE (IF Head(msgs).flagged THEN << >>
          ELSE native_to_big(Head(msgs).msg_len) \o Head(msgs).data) \o FramesOf(Tail(msgs))

\* The bytes appended since the commit in hand began.
AppendedByCall == Drop(produced, src.entry.bytes)

\* The commit in hand has handled all its messages and is about to return.
CommitReturning == src.pc = "commit_msg" /\ src.i > Len(src.msgs)

\* C18: at the head of each turn of producer_commit_batch's loop the
\* messages handled so far have raised n_datagrams + n_datagrams_discarded by
\* one each and appended one frame per unflagged message, in order; so when
\* the call returns, after k turns, the sum has grown by k and the ring has
\* taken exactly the frames of the batch's unflagged messages.
C18_BatchCommitted ==
    /\ (src.pc = "commit_msg") =>
          /\ stats.n_datagrams + stats.n_datagrams_discarded = src.entry.n + (src.i - 1)
          /\ AppendedByCall = FramesOf(Take(src.msgs, src.i - 1))
    /\ CommitReturning =>
          /\ stats.n_datagrams + stats.n_datagrams_discarded = src.entry.n + Len(src.msgs)
          /\ AppendedByCall = FramesOf(src.msgs)

\* C18 witness: a batch of a flagged and an unflagged message, not the first
\* batch, is about to return.
C18_Witness ==
    /\ CommitReturning /\ Len(src.msgs) = 2 /\ src.entry.bytes > 0
    /\ \E i, j \in 1..2 : src.msgs[i].flagged /\ ~src.msgs[j].flagged /\ src.msgs[j].msg_len > 0

\* The step in which a timed producer_commit_batch returns.
TimedCommitReturns ==
    src.timed /\ src.pc \in {"commit_msg", "commit_wait"} /\ src'.pc = "call"

\* C19: the timed producer_commit_batch returns a count c <= k with the
\* first c messages handled - a frame each, or discarded - and no byte of the
\* others in the ring; c < k only when the wait for message c + 1 ended by
\* timeout with the ring still short of room; and once the deadline has
\* passed a wait ends at once, by return or by the room found, never by
\* waiting again.
C19_TimedCommit ==
    /\ [][TimedCommitReturns =>
            LET c == src.n_buffers_committed
                k == Len(src.msgs)
            IN  /\ c <= k /\ c = src.i - 1
                /\ AppendedByCall = FramesOf(Take(src.msgs, c))
                /\ stats.n_datagrams + stats.n_datagrams_discarded = src.entry.n + c
                /\ produced' = produced /\ q' = q /\ stats' = stats
                /\ c < k => /\ src.pc = "commit_wait"
                            /\ ~src.msgs[c + 1].flagged
                            /\ q.n + src.msgs[c + 1].msg_len + PREFIX_LEN > max_backlog]_vars
    /\ [][(src.late /\ src.pc = "commit_wait" /\ src' /= src) =>
            /\ src'.pc \in {"call", "commit_payload"}
            /\ "src" \notin cv_waiters']_vars

\* C19 witness: a timed commit of two messages has appended the first, its
\* deadline has passed, and the ring has no room for the second.
C19_Witness ==
    /\ src.timed /\ src.late /\ src.pc = "commit_wait" /\ ring_mutex = "none"
    /\ Len(src.msgs) = 2 /\ src.n_buffers_committed = 1
    /\ q.n + src.msgs[2].msg_len + PREFIX_LEN > max_backlog

\* The commit in hand has thrown "Datagram + PREFIX too large for buffer".
TooLarge == src.exc = "too_large"

\* C20: a commit that meets an unflagged message with payload + 4 above the
\* ring's capacity throws too-large without waiting for room: the ring has
\* taken the frames of the messages before it and no byte of it, no frame
\* in the ring is ever longer than the ring, and the producer never waits
\* for room that cannot come.  The source worker stores the error, and
\* wait() ends by raising - this error, or the sink's if the sink failed
\* first.
C20_TooLargeRaised ==
    /\ [](TooLarge =>
            /\ ~src.msgs[src.i].flagged
            /\ src.msgs[src.i].msg_len + PREFIX_LEN > max_backlog
            /\ AppendedByCall = FramesOf(Take(src.msgs, src.i - 1))
            /\ "src" \notin cv_waiters)
    /\ [](src.pc = "commit_wait" => src.msgs[src.i].msg_len + PREFIX_LEN <= max_backlog)
    /\ []((ring_mutex /= "src") =>
            \A i \in 1..Len(Frames(produced)) :
                Len(Frames(produced)[i]) + PREFIX_LEN <= max_backlog)
    /\ []((TooLarge /\ Terminal) =>
            /\ Raised
            /\ exception \in {"too_large", dst.exc})
    /\ [](exception = "too_large" => TooLarge)
    /\ TooLarge ~> Raised

\* C20 witness: the second message of a batch was too large, the frame of
\* the first is in the output, and wait() has raised the too-large error.
C20_Witness ==
    /\ TooLarge /\ src.i = 2 /\ main_pc = "raised" /\ exception = "too_large"
    /\ written = FramesOf(Take(src.msgs, 1)) /\ written /= << >>

\* The bytes the ring holds, oldest first.
RingContents == Drop(produced, Len(consumed))

\* C21: a consumer_start_batch(n_min, n_max) with n_min <= n_max <= capacity
\* that returns hands out the min(count, n_max) oldest bytes of the ring,
\* fewer than n_min only with eof set as it returns; and it goes to wait only
\* with count < n_min and eof not set.
C21_StartBatch ==
    [][(/\ dst.pc \in {"consume", "consume_wait"} /\ dst' /= dst
        /\ dst.n_min <= dst.n_max /\ dst.n_max <= max_backlog) =>
          IF dst'.pc = "client_commit"
          THEN /\ dst'.view.n = Min(q.n, dst.n_max)
               /\ dst'.view.n < dst.n_min => q.is_eof
               /\ BatchBytes(q, dst'.view) = Take(RingContents, dst'.view.n)
               /\ q' = q
          ELSE /\ dst'.pc = "consume_wait"
               /\ q.n < dst.n_min /\ ~q.is_eof]_vars

\* C21 witness: at eof a batch shorter than n_min was returned, in two
\* slices.
C21_Witness ==
    /\ dst.pc = "client_commit" /\ q.is_eof
    /\ 0 < dst.view.n /\ dst.view.n < dst.n_min /\ dst.n_min <= dst.n_max
    /\ Len(dst.view.iov) = 2

\* C22: a consumer_commit_batch never frees more bytes than the batch the
\* consumer holds: a larger n is rejected, head and count unchanged, also
\* when the ring holds n bytes or more.
C22_CommitWithinBatch ==
    [][(dst.pc = "client_commit" /\ q'.n < q.n) => q.n - q'.n <= dst.view.n]_vars

\* C23: the stream sink never frees bytes of the ring that its output has
\* not taken: what was consumed is a prefix of what was written, and after a
\* commit the two are equal.
C23_NoCommitOfUnwritten ==
    cfg.dst_kind = "file" =>
        /\ IsPrefix(consumed, written)
        /\ dst.pc = "consume" => written = consumed

\* The part of the input the stream source has read.
InputRead == Take(cfg.src.input, src.pos)

\* C24: whatever the read calls return, the stream source runs to the end of
\* its input within the bounds of its buffers, the frames it commits are the
\* input's, once each and in order, and at the end of a well-formed input all
\* of them are in.
C24_StreamSourceFrames ==
    /\ ~aborted
    /\ (ring_mutex /= "src") => (IsFramed(produced) /\ IsPrefix(produced, InputRead))
    /\ (src.why = "eof" /\ ~SrcRaised) => produced = InputRead

\* The input ended inside a frame: read() returned 0 with bytes in hand.
PartialEof == src.why = "partial_eof"

\* C25: an end of input inside a frame ends the stream source's loop without
\* an exception; the frames before the cut one are in the ring, whole, and
\* the bytes of the cut one are not; then wait() ends, raising only if the
\* sink failed, and when it returns those frames went to the sink.
C25_PartialFrameAtEof ==
    /\ [](PartialEof =>
            /\ ~SrcRaised
            /\ src.buf /= << >> /\ Frames(src.buf) = << >>
            /\ IsFramed(produced) /\ produced \o src.buf = InputRead)
    /\ []((PartialEof /\ Raised) => DstRaised)
    /\ []((PartialEof /\ Returned) => consumed = produced)
    /\ PartialEof ~> Terminal

\* C25 witness: the input ended inside the payload of its second frame, and
\* wait() returned with the first frame written out.
C25_Witness ==
    /\ PartialEof /\ main_pc = "returned" /\ cfg.dst_kind = "file"
    /\ Len(src.buf) > PREFIX_LEN
    /\ Len(written) > PREFIX_LEN

\* The least integer not below a / b.
CeilDiv(a, b) == (a + b - 1) \div b

\* The sendmsg calls made at a clock value in [a, a + W).
SendsIn(a, W) == {k \in 1..Len(dst.send_times) : a <= dst.send_times[k] /\ dst.send_times[k] < a + W}

\* C26: under a rate r = 1 / send_interval, a window of length W >= 2 / r
\* holds at most ceil(r * W) + 1 sends, however the data arrive.
C26_RateBound ==
    cfg.send_interval /= 0 =>
        \A W \in (2 * cfg.send_interval)..(MaxTime + 1) :
            \A a \in 0..MaxTime :
                Cardinality(SendsIn(a, W)) <= CeilDiv(W, cfg.send_interval) + 1

\* C27: the snapshot get_stats() returns is the ring's published counters as
\* they stood at one point of the call, all fields from the same publication.
C27_SnapshotConsistent == sig.snapshot \in sig.points

\* C28: the socket is closed only after _force_eof was set, and a receive on
\* the closed socket ends the loop without an exception if _force_eof is set
\* and raises the error otherwise.
C28_BadDescriptor ==
    /\ [](source.sock = "closed" => source.force_eof)
    /\ [][(src.pc = "recv" /\ source.sock = "closed" /\ src' /= src) =>
            IF source.force_eof
            THEN src'.pc = "copy_done" /\ src'.exc = "none"
            ELSE src'.pc = "store_exc" /\ src'.exc = "bad_descriptor"]_vars

\* C28 witness: the receive loop ended on the socket force_eof() closed, and
\* the source worker went on to exit without an exception.
C28_Witness ==
    /\ src.why = "force_eof" /\ src.pc = "exited" /\ ~SrcRaised
    /\ source.force_eof /\ source.sock = "closed"

\* C29: a length up to 2^32 - 1 is written as 4 bytes, most significant
\* first, and read back as itself; a greater one makes write_length_prefix
\* fail and leaves the buffer as it was.
C29_PrefixRoundTrip ==
    /\ pfx.pc \in {"read", "done"} =>
          /\ ~exceeds_uint32(pfx.len)
          /\ Len(pfx.buffer) = PREFIX_LEN
          /\ \A i \in 1..PREFIX_LEN : pfx.buffer[i] = pfx.len[PREFIX_LEN + 1 - i]
    /\ pfx.pc = "done" => pfx.result = pfx.len
    /\ pfx.pc = "raised" => exceeds_uint32(pfx.len) /\ pfx.buffer = Unwritten

\* C29 witness: the length 2^32 - 1 was written and read back.
C29_Witness ==
    /\ pfx.pc = "done"
    /\ pfx.len = [i \in 1..SizeBytes |-> IF i <= PREFIX_LEN THEN 255 ELSE 0]
    /\ pfx.result = pfx.len

\* C30: under max_datagrams = N > 0 the sink's output holds at most N
\* datagrams.
C30_StopsAtLimit ==
    cfg.max_datagrams > 0 =>
        /\ Len(Frames(written)) <= cfg.max_datagrams
        /\ Len(sent) <= cfg.max_datagrams

\* C31: each receive runs under start_timeout while no datagram has been
\* received and under eof_timeout afterwards, a value <= 0 being no timeout
\* (the receive then never times out); setsockopt runs exactly when the
\* choice is not the installed one, and at most twice.
C31_ReceiveTimeout ==
    /\ [](src.n_setsockopt <= 2)
    /\ [][(src.pc = "recv" /\ src' /= src) =>
            /\ src'.current_timeout = (IF n_arrived = 0 THEN "first" ELSE "dg")
            /\ src'.n_setsockopt =
                 src.n_setsockopt + (IF src'.current_timeout /= src.current_timeout THEN 1 ELSE 0)
            /\ src'.why = "timeout" =>
                 (IF n_arrived = 0 THEN cfg.src.start_timeout ELSE cfg.src.eof_timeout) > 0]_vars

\* C31 witness: no start timeout, and after the first datagrams the eof
\* timeout, installed by the second setsockopt, ended the loop.
C31_Witness ==
    /\ cfg.src.start_timeout = 0 /\ cfg.src.eof_timeout > 0
    /\ src.why = "timeout" /\ src.n_setsockopt = 2 /\ src.current_timeout = "dg"

\* The mutexes of the three stats groups.
StatsMutexes == {"source_stats", "destination_stats", "buffer_stats"}

Threads == {"src", "dst", "sig", "main"}

\* The mutexes a thread holds from one step to the next.
Holds(t) ==
    (IF ring_mutex = t THEN {"ring"} ELSE {})
    \cup (IF t = "src" THEN src.held ELSE IF t = "sig" THEN sig.held ELSE {})

\* The mutex a thread's next step takes (or takes again after a wait on the
\* condition variable): the ring's, the Copier's, the source's or a stats
\* group's.
Wants(t) ==
    IF t = "src"
    THEN (IF src.pc \in {"commit", "commit_wait", "copy_done", "call", "reserve_wait"}
          THEN {"ring"}
          ELSE IF src.pc = "stats_lock" THEN {"source_stats"}
          ELSE IF src.pc = "store_exc" THEN {"copier"}
          ELSE IF src.pc = "recv" /\ source.sock = "closed" THEN {"source"}
          ELSE {})
    ELSE IF t = "dst"
    THEN (IF dst.pc \in {"consume", "consume_wait", "commit", "client_commit", "is_eof"}
          THEN {"ring"}
          ELSE IF dst.pc = "store_exc" THEN {"copier"}
          ELSE IF dst.pc \in {"force_eof", "force_eof_close"} THEN {"source"}
          ELSE {})
    ELSE IF t = "sig"
    THEN (IF sig.pc \in {"check_eof", "woke"} THEN {"ring"}
          ELSE IF sig.pc \in {"start", "stats", "finish"} THEN {"copier"}
          ELSE IF sig.pc = "stats_get" THEN {sig.group}
          ELSE IF sig.pc \in {"force_eof", "force_eof_close"} THEN {"source"}
          ELSE {})
    ELSE (IF main_pc \in {"wait_for", "sig_wait_for", "sig_kill", "rethrow"}
          THEN {"copier"} ELSE {})

\* Threads that each wait for a mutex another of them holds.
CyclicWait(S) == \A t \in S : \E u \in S \ {t} : Wants(t) \cap Holds(u) /= {}

\* C32: no thread holds two stats mutexes at once, a worker holds none but
\* its own group's, a stats mutex has one holder, and no set of threads
\* waits in a cycle for mutexes its members hold.
C32_StatsMutexes ==
    /\ \A t \in Threads : Cardinality(Holds(t) \cap StatsMutexes) <= 1
    /\ src.held \subseteq {"source_stats"}
    /\ src.held \cap sig.held = {}
    /\ \A S \in SUBSET Threads : S /= {} => ~CyclicWait(S)

\* C32 witness: get_stats(), holding the Copier's mutex, waits for the source
\* stats mutex, which the source worker holds.
C32_Witness ==
    /\ sig.pc = "stats_get" /\ sig.group = "source_stats" /\ sig.held = {"copier"}
    /\ src.held = {"source_stats"}

\* C33: the stats a commit publishes report a max_backlog_bytes no smaller
\* than the ring's count at that commit; max_backlog_bytes never decreases
\* and never exceeds max_backlog.
C33_MaxBacklogBytes ==
    /\ [](shared_stats.max_backlog_bytes <= max_backlog)
    /\ [][/\ shared_stats'.max_backlog_bytes >= shared_stats.max_backlog_bytes
          /\ (ring_mutex = "src" /\ shared_stats' /= shared_stats)
                 => shared_stats'.max_backlog_bytes >= q'.n]_vars

\* C34: in the Copier eof is set only by the source thread once its copy
\* loop is over, so the thread is past its last commit: no commit is refused
\* for a set eof, and nothing is appended to the ring once eof is set.
C34_EofAfterCopyLoop ==
    /\ [](q.is_eof => src.pc \in {"exited", "killed"})
    /\ [](~RefusedAfterEof)
    /\ [][(q'.is_eof /\ ~q.is_eof) => src.pc = "copy_done"]_vars
    /\ [][q.is_eof => /\ produced' = produced
                      /\ q'.producer_index = q.producer_index
                      /\ q'.n <= q.n]_vars

\* C34 witness: the source has committed datagrams, its loop is over and eof
\* is set while the sink still has bytes of the ring to take.
C34_Witness == q.is_eof /\ src.pc = "exited" /\ Len(produced) > 0 /\ q.n > 0

UdpSink == cfg.dst_kind = "udp"

\* C35: a batch the UDP sink got from consumer_start_batch starts where a
\* frame starts and is made of whole frames, so it holds the payload its
\* first prefix announces; the sink never raises n_min above PREFIX_LEN.
C35_WholeFramesSeen ==
    /\ UdpSink => dst.n_min \in {0, PREFIX_LEN}
    /\ (UdpSink /\ dst.pc \in {"send", "commit"}) =>
           /\ IsFramed(consumed)
           /\ dst.view.n >= PREFIX_LEN
           /\ dst.view.n >= PREFIX_LEN + ntohl(Take(BatchBytes(q, dst.view), PREFIX_LEN))
           /\ IsFramed(BatchBytes(q, dst.view))

\* C35 witness: the sink holds a batch whose first frame has a payload, taken
\* after an earlier batch was committed, while the source is inside a commit.
C35_Witness ==
    /\ UdpSink /\ dst.pc = "send" /\ Len(consumed) > 0
    /\ ntohl(Take(BatchBytes(q, dst.view), PREFIX_LEN)) >= 1
    /\ src.pc \in {"commit_msg", "commit_payload", "commit_wait"}

StreamSink == cfg.dst_kind = "file"

\* The producer sleeps in the _cv.wait of producer_commit_batch.
ProducerBlocked == src.pc = "commit_wait" /\ "src" \in cv_waiters

\* The consumer sleeps in the _cv.wait of consumer_start_batch.
ConsumerBlocked == dst.pc = "consume_wait" /\ "dst" \in cv_waiters

\* The producer is inside producer_commit_batch.
InCommit == src.pc \in {"commit", "commit_msg", "commit_payload", "commit_wait"}

\* C36: with the stream sink the producer and the consumer never sleep on
\* the condition variable both at once; with fair scheduling, a producer
\* that waits for room in a commit gets out of the commit unless a write of
\* the sink failed.
C36_NoMutualWait ==
    /\ [](StreamSink => ~(ProducerBlocked /\ ConsumerBlocked))
    /\ (StreamSink /\ ProducerBlocked) ~> (~InCommit \/ DstRaised)

\* C36 witness: the producer sleeps for room, the ring nearly full, while
\* the stream sink is about to write a batch.
C36_Witness ==
    /\ StreamSink /\ ProducerBlocked /\ dst.pc = "write"
    /\ n_free_locked(q) < PREFIX_LEN

\* The bytes in _buffer after a read() that took the input up to pos.
ReadSoFar(pos) == src.buf \o SubSeq(cfg.src.input, src.pos + 1, pos)

\* The turns of the carving loop over the n_read bytes b, the last of which
\* stopped at r.i_next: one for each frame found, and one more when the loop
\* stopped short of n_read.
Turns(b, r) == Len(r.msgs) + (IF r.i_next < Len(b) THEN 1 ELSE 0)

\* C37: in every pass of the stream source over its buffer, each turn's
\* index into _iovs and _msgs is below max_read_size / 4, and the 4 bytes
\* copied as a prefix are bytes that were read.
C37_CarveInBounds ==
    [][(src.pc = "fread" /\ src'.pos > src.pos) =>
          LET b    == ReadSoFar(src'.pos)
              size == IF src.bufsize < src.fn_min THEN src.fn_min ELSE src.bufsize
              r    == parse(b, size)
          IN  Len(b) >= src.fn_min =>
                  /\ Turns(b, r) <= IovCount
                  /\ r.i_next < Len(b) => r.i_next + PREFIX_LEN <= Len(b)]_vars

\* _buffer.size() - n_read at the read() call: the buffer first grows to
\* n_min when it is smaller.
ReadRequest ==
    (IF src.bufsize < src.fn_min THEN src.fn_min ELSE src.bufsize) - Len(src.buf)

\* C38: whenever the stream source is about to call read(), it asks for at
\* least one byte.
C38_ReadRequestPositive ==
    (cfg.src.kind = "file" /\ src.pc = "fread") => ReadRequest >= 1

\* C38 witness: a read() with bytes of a cut frame at the front of a buffer
\* that has grown beyond max_read_size, n_min back at PREFIX_LEN.
C38_Witness ==
    /\ cfg.src.kind = "file" /\ src.pc = "fread"
    /\ src.buf /= << >> /\ src.pos > Len(src.buf)
    /\ src.bufsize > MaxReadSize /\ src.fn_min = PREFIX_LEN

\* The indices of _data that hold bytes not yet consumed.
Occupied(r) == { (r.consumer_index + k) % max_backlog : k \in 0..(r.n - 1) }

\* C39: a step of consumer_commit_batch changes nothing of the ring but
\* consumer_index and _n; a step of producer_commit_batch leaves
\* consumer_index, eof and the bytes not yet consumed alone; the steps of
\* consumer_start_batch and is_eof leave the ring and its counters alone.
C39_RingFrame ==
    [][/\ (dst' /= dst /\ dst.pc \in {"commit", "client_commit"}) =>
              /\ q'.producer_index = q.producer_index /\ q'.is_eof = q.is_eof
              /\ q'.data = q.data
              /\ stats' = stats /\ shared_stats' = shared_stats
       /\ (src' /= src /\ InCommit) =>
              /\ q'.consumer_index = q.consumer_index /\ q'.is_eof = q.is_eof
              /\ q'.n >= q.n
              /\ \A k \in Occupied(q) : q'.data[k] = q.data[k]
       /\ (dst' /= dst /\ dst.pc \in {"consume", "consume_wait", "is_eof"}) =>
              /\ q' = q /\ stats' = stats /\ shared_stats' = shared_stats]_vars

\* C39 witness: the consumer has committed a part of what the ring held and
\* the producer is inside a commit that has put a frame's prefix.
C39_Witness ==
    /\ cfg.dst_kind = "client" /\ Len(consumed) > 0 /\ q.n > 0 /\ q.consumer_index > 0
    /\ src.pc = "commit_payload"

====
